---- MODULE Spec2Model ----
(***************************************************************************)
(* A model of the signal-detection and alert-deduplication engine of the   *)
(* Polymarket alerts bot: the volume-milestone detector with its baseline  *)
(* and threshold stores (alerts.py, database.py), the snapshot store and   *)
(* its bulk deltas (database.py), the wakeup detector (alerts.py) and the  *)
(* dedup ledger of the alert cycle (scheduler.py).                         *)
(***************************************************************************)
EXTENDS Integers, Sequences, FiniteSets, TLC

(***************************************************************************)
(* Generic helpers.                                                        *)
(***************************************************************************)
Range(s) == {s[i] : i \in 1..Len(s)}

\* Python's max() over a non-empty list of numbers.
Max(s) == CHOOSE v \in Range(s) : \A w \in Range(s) : w <= v

\* Python's `needle in haystack` for strings, both given as character sequences.
Contains(haystack, needle) ==
    \E i \in 1..(Len(haystack) - Len(needle) + 1) :
        SubSeq(haystack, i, i + Len(needle) - 1) = needle

UpperCase == <<"A","B","C","D","E","F","G","H","I","J","K","L","M",
               "N","O","P","Q","R","S","T","U","V","W","X","Y","Z">>
LowerCase == <<"a","b","c","d","e","f","g","h","i","j","k","l","m",
               "n","o","p","q","r","s","t","u","v","w","x","y","z">>

\* str.lower(), one character at a time.
LowerChar(c) ==
    IF \E i \in 1..Len(UpperCase) : UpperCase[i] = c
    THEN LowerCase[CHOOSE i \in 1..Len(UpperCase) : UpperCase[i] = c]
    ELSE c

Lower(s) == [i \in 1..Len(s) |-> LowerChar(s[i])]

\* list.sort(key=..., reverse=True): a stable sort, so an element is preceded
\* by the elements of greater key and by the earlier elements of equal key.
SortDesc(s, key) ==
    LET rank(i) == 1 + Cardinality({j \in 1..Len(s) :
                                       \/ s[j][key] > s[i][key]
                                       \/ s[j][key] = s[i][key] /\ j < i})
    IN  [k \in 1..Len(s) |-> s[CHOOSE i \in 1..Len(s) : rank(i) = k]]

(***************************************************************************)
(* config.py                                                               *)
(***************************************************************************)
VOLUME_THRESHOLDS == <<100000, 250000, 500000, 1000000>>

DISCOVERY_MIN_VOLUME == 25000

ALERT_CAP_PER_CYCLE == 10

\* substrings of the slug that mark a sports or esports market
SPORTS_SLUG_PATTERNS ==
    <<
       <<"n", "f", "l", "-">>,
       <<"n", "b", "a", "-">>,
       <<"n", "h", "l", "-">>,
       <<"m", "l", "b", "-">>,
       <<"m", "l", "s", "-">>,
       <<"a", "f", "c", "-">>,
       <<"n", "f", "c", "-">>,
       <<"e", "p", "l", "-">>,
       <<"u", "e", "f", "a", "-">>,
       <<"f", "i", "f", "a", "-">>,
       <<"c", "f", "b", "-">>,
       <<"n", "c", "a", "a", "-">>,
       <<"b", "o", "x", "i", "n", "g", "-">>,
       <<"u", "f", "c", "-">>,
       <<"m", "m", "a", "-">>,
       <<"w", "w", "e", "-">>,
       <<"d", "o", "t", "a", "-">>,
       <<"c", "s", "g", "o", "-">>,
       <<"l", "o", "l", "-">>,
       <<"v", "a", "l", "o", "r", "a", "n", "t", "-">>,
       <<"e", "s", "p", "o", "r", "t">>,
       <<"f", "1", "-">>,
       <<"n", "a", "s", "c", "a", "r", "-">>,
       <<"t", "e", "n", "n", "i", "s", "-">>,
       <<"g", "o", "l", "f", "-">>,
       <<"p", "g", "a", "-">>,
       <<"o", "l", "y", "m", "p", "i", "c", "s", "-">>,
       <<"w", "o", "r", "l", "d", "-", "c", "u", "p", "-">>,
       <<"s", "u", "p", "e", "r", "-", "b", "o", "w", "l", "-">>,
       <<"f", "a", "n", "t", "a", "s", "y", "-", "f", "o", "o", "t", "b", "a", "l", "l">>,
       <<"f", "a", "n", "t", "a", "s", "y", "-">>
    >>

\* substrings of the title that mark a sports market
SPORTS_TITLE_KEYWORDS ==
    <<
       <<"N", "F", "L">>,
       <<"N", "B", "A">>,
       <<"N", "H", "L">>,
       <<"M", "L", "B">>,
       <<"M", "L", "S">>,
       <<"A", "F", "C", " ", "N", "o", "r", "t", "h">>,
       <<"A", "F", "C", " ", "S", "o", "u", "t", "h">>,
       <<"A", "F", "C", " ", "E", "a", "s", "t">>,
       <<"A", "F", "C", " ", "W", "e", "s", "t">>,
       <<"N", "F", "C", " ", "N", "o", "r", "t", "h">>,
       <<"N", "F", "C", " ", "S", "o", "u", "t", "h">>,
       <<"N", "F", "C", " ", "E", "a", "s", "t">>,
       <<"N", "F", "C", " ", "W", "e", "s", "t">>,
       <<"P", "r", "e", "m", "i", "e", "r", " ", "L", "e", "a", "g", "u", "e">>,
       <<"C", "h", "a", "m", "p", "i", "o", "n", "s", " ", "L", "e", "a", "g", "u", "e">>,
       <<"L", "a", " ", "L", "i", "g", "a">>,
       <<"S", "e", "r", "i", "e", " ", "A">>,
       <<"S", "u", "p", "e", "r", " ", "B", "o", "w", "l">>,
       <<"W", "o", "r", "l", "d", " ", "S", "e", "r", "i", "e", "s">>,
       <<"S", "t", "a", "n", "l", "e", "y", " ", "C", "u", "p">>,
       <<"F", "i", "n", "a", "l", "s">>,
       <<"v", "s", ".">>,
       <<" ", "v", "s", " ">>,
       <<"m", "a", "t", "c", "h">>,
       <<"g", "a", "m", "e", " ">>,
       <<"U", "F", "C">>,
       <<"b", "o", "x", "i", "n", "g">>,
       <<"f", "i", "g", "h", "t">>,
       <<"D", "o", "t", "a">>,
       <<"C", "S", ":", "G", "O">>,
       <<"L", "e", "a", "g", "u", "e", " ", "o", "f", " ", "L", "e", "g", "e", "n", "d", "s">>,
       <<"V", "a", "l", "o", "r", "a", "n", "t">>,
       <<"P", "l", "a", "y", "o", "f", "f">>,
       <<"p", "l", "a", "y", "o", "f", "f", "s">>,
       <<"D", "i", "v", "i", "s", "i", "o", "n", " ", "W", "i", "n", "n", "e", "r">>,
       <<"C", "o", "n", "f", "e", "r", "e", "n", "c", "e", " ", "W", "i", "n", "n", "e", "r">>,
       <<"F", "a", "n", "t", "a", "s", "y", " ", "F", "o", "o", "t", "b", "a", "l", "l">>,
       <<"T", "o", "p", " ", "K", "i", "c", "k", "e", "r">>,
       <<"T", "o", "p", " ", "Q", "u", "a", "r", "t", "e", "r", "b", "a", "c", "k">>,
       <<"T", "o", "p", " ", "R", "u", "n", "n", "i", "n", "g", " ", "B", "a", "c", "k">>,
       <<"T", "o", "p", " ", "W", "i", "d", "e", " ", "R", "e", "c", "e", "i", "v", "e", "r">>,
       <<"T", "o", "p", " ", "T", "i", "g", "h", "t", " ", "E", "n", "d">>
    >>

(***************************************************************************)
(* The markets of the model.  A market is identified by its event slug;    *)
(* SlugChars and TitleChars give the characters of its slug and title.     *)
(***************************************************************************)
Markets == {"mkt-x", "nfl-y"}

SlugChars(slug) ==
    CASE slug = "mkt-x" -> <<"m", "k", "t", "-", "x">>
      [] slug = "nfl-y" -> <<"n", "f", "l", "-", "y">>

TitleChars(slug) ==
    CASE slug = "mkt-x" -> <<"M", "a", "r", "k", "e", "t", " ", "X">>
      [] slug = "nfl-y" -> <<"Y", " ", "w", "i", "n", "s", "?">>

\* total_volume values a fetch can report for a market (dollars); the sports
\* market of the model trades at one volume.
Volumes == {20000, 30000, 80000, 120000, 250000}

VolumesOf(slug) == IF slug = "nfl-y" THEN {120000} ELSE Volumes

\* yes_price values a fetch can report (0-100 scale): an open market and a
\* resolved one, which the model fetches at one volume.
Prices == {50, 97}

ResolvedVolumes == {120000}

PricesOf(slug) == IF slug = "nfl-y" THEN {50} ELSE Prices

\* created_at strings the API can hold for a market, by what datetime parsing
\* makes of them: empty (or None), a date without "T", a string with "T" that
\* fromisoformat rejects (or a timestamp without offset, whose subtraction
\* from an aware now raises), and offset-aware timestamps of a given age.
CreatedAts ==
    { [kind |-> "empty",     hours_old |-> 0],
      [kind |-> "date_only", hours_old |-> 0],
      [kind |-> "malformed", hours_old |-> 0],
      [kind |-> "aware",     hours_old |-> 10],
      [kind |-> "aware",     hours_old |-> 49] }

CreatedAtsOf(slug) ==
    IF slug = "nfl-y" THEN {[kind |-> "empty", hours_old |-> 0]} ELSE CreatedAts

\* what one fetch reports of a market, its created_at aside
Quotes ==
    {q \in [slug : Markets, total_volume : Volumes, yes_price : Prices] :
        /\ q.total_volume \in VolumesOf(q.slug)
        /\ q.yes_price \in PricesOf(q.slug)
        /\ q.yes_price = 97 => q.total_volume \in ResolvedVolumes}

\* polymarket.py get_all_markets_paginated: one entry per event slug,
\* sorted by total_volume, highest first.
IsListing(l) ==
    /\ \A i, j \in 1..Len(l) : i # j => l[i].slug # l[j].slug
    /\ \A i \in 1..(Len(l) - 1) : l[i].total_volume >= l[i + 1].total_volume

QuoteListings ==
    {l \in UNION {[1..n -> Quotes] : n \in 0..Cardinality(Markets)} : IsListing(l)}

(***************************************************************************)
(* alerts.py: the shared pre-filter.                                       *)
(***************************************************************************)
is_resolved_price(yes_price) == yes_price >= 95 \/ yes_price <= 5

filter_resolved(events) ==
    SelectSeq(events, LAMBDA e : ~is_resolved_price(e.yes_price))

is_sports_market(event) ==
    LET slug  == Lower(SlugChars(event.slug))
        title == TitleChars(event.slug)
    IN  \/ \E i \in 1..Len(SPORTS_SLUG_PATTERNS) :
              Contains(slug, Lower(SPORTS_SLUG_PATTERNS[i]))
        \/ \E i \in 1..Len(SPORTS_TITLE_KEYWORDS) :
              Contains(Lower(title), Lower(SPORTS_TITLE_KEYWORDS[i]))

\* is_sports_market depends on the slug and title only.
SportsMarkets == {m \in Markets : is_sports_market([slug |-> m])}

filter_sports(events) ==
    SelectSeq(events, LAMBDA e : e.slug \notin SportsMarkets)

(***************************************************************************)
(* State.                                                                  *)
(***************************************************************************)
VARIABLES
    \* the created_at string the API holds for each market
    created_at_of,
    \* database.py, table system_flags: volume_baselines_seeded is set
    seeded,
    \* database.py, table volume_baselines: event_slug -> last_volume
    volume_baselines,
    \* database.py, table volume_milestones: rows
    \* [event_slug, threshold, volume_at_crossing]
    volume_milestones,
    \* the last operation on the volume stores, the listing it fetched, its
    \* record argument and what it returned
    lastOp, lastEvents, lastRecord, milestones_crossed, discoveries,
    \* history: how often a milestone candidate naming (slug, threshold) was
    \* returned by passes with record=True, how often a discovery candidate
    \* naming the market was, and the number of operations so far
    emitted, discovered, passes,
    \* the time, in hours since the start
    now,
    \* database.py, table volume_snapshots: rows [event_slug, volume, recorded_at]
    \* in insertion order
    volume_snapshots,
    \* when the last operation was get_volume_deltas_bulk: its arguments and its
    \* result
    lastSlugs, lastHours, deltas,
    \* when the last operation was check_wakeup_alerts: the candidates it returned
    wakeups,
    \* config.py: ALERT_CHANNEL_ID is set (broadcast mode)
    use_channel,
    \* database.py, table user_alerts: rows <<telegram_id, event_slug, alert_type>>
    user_alerts,
    \* the channel's delivery records, in insertion order: rows
    \* [event_slug, alert_type, yes_price, alerted_at]
    channel_alerts,
    \* the input of the last cycle: the families that returned the market as a
    \* candidate and the sends that failed
    lastCandidates, lastFailed,
    \* history: every delivery made, in order, as
    \* [recipient, slug, family, yes_price, price, at]; the number of cycles run
    delivered, cycles,
    \* database.py, table price_snapshots: rows [event_slug, yes_price, recorded_at]
    \* in insertion order
    price_snapshots,
    \* the input of the last cycle beyond its candidates: the upstream's
    \* responses, the snapshot write that failed and the families that raised
    lastInput,
    \* history: the steps of the last cycle, in the order it took them
    trace,
    \* for the interval job and for the manual command: the await of
    \* run_alert_cycle its coroutine is suspended at (0: none is running), and
    \* the number of cycles it has started
    pc,
    \* when the last operation was check_velocity_alerts or
    \* check_price_movements: the list it returned
    velocity_alerts, big_moves,
    \* scheduler.py, module globals: what get_scheduler_status reports of the
    \* last run. None is the empty sequence, a value v is <<v>>
    last_cycle_time, last_cycle_stats,
    \* when the last operation was a detector of the signal families or
    \* check_new_markets: its name, whether it raised, the list it returned and
    \* the delta maps it read
    returned,
    \* database.py, table seen_markets: the global rows (telegram_id IS NULL) as
    \* [event_slug, first_seen_at], in insertion order
    seen_markets,
    \* history: the slugs check_new_markets(mark_seen=True) has returned so far
    returned_new,
    \* cache.py, module globals: the redis package was imported
    \* (REDIS_AVAILABLE), a client is connected (_redis_client is not None) and
    \* the cache is enabled (_redis_enabled)
    cache_module,
    \* the Redis server: key -> the value stored under it
    redis_data,
    \* history: the last call into cache.py
    cache_call,
    \* database.py, table users: telegram_id -> [new_markets_enabled,
    \* big_moves_enabled]
    user_settings,
    \* database.py, table watchlist: rows [telegram_id, event_slug, last_price]
    \* in insertion order
    watchlist,
    \* when the last operation was a cycle with its watchlist phase: the alerts
    \* the phase tried to send, as [telegram_id, slug, last_price,
    \* current_price, sent]
    watch_alerts,
    \* for the interval job and for the manual command: the bundle its
    \* coroutine is sending while it is suspended in send_alert_to_user (None:
    \* it is not in a send)
    sending,
    \* history: the cache keys whose entry was stored before the last write of
    \* snapshots
    stale_keys

volVars ==
    <<created_at_of, seeded, volume_baselines, volume_milestones, lastOp, lastEvents,
      lastRecord, milestones_crossed, discoveries, emitted, discovered, passes>>

snapVars ==
    <<now, volume_snapshots, lastSlugs, lastHours, deltas, wakeups>>

\* the state of the volume stores and of their history
volVarsButEvents ==
    <<created_at_of, seeded, volume_baselines, volume_milestones, lastRecord,
      milestones_crossed, discoveries, emitted, discovered, passes>>

\* an operation other than get_volume_deltas_bulk leaves no deltas behind
ClearDeltas ==
    /\ lastSlugs' = <<>>
    /\ lastHours' = 1
    /\ deltas' = [s \in {} |-> 0]

\* an operation other than check_wakeup_alerts leaves no wakeups behind
ClearWakeups ==
    /\ lastEvents' = <<>>
    /\ wakeups' = <<>>

ledgerVars ==
    <<use_channel, user_alerts, channel_alerts, lastCandidates, lastFailed,
      delivered, cycles>>

\* what the operations on the volume and snapshot stores leave alone besides
\* the ledger
statusVars == <<last_cycle_time, last_cycle_stats>>

cacheVars == <<cache_module, redis_data, cache_call>>

signalVars == <<returned, seen_markets, returned_new, cacheVars>>

\* the settings, the watchlist, the coroutines' bundles and the cache history
handlerVars == <<user_settings, watchlist, watch_alerts, sending, stale_keys>>

cycleVars ==
    <<price_snapshots, lastInput, trace, pc, velocity_alerts, big_moves, statusVars,
      signalVars, handlerVars>>

\* the users of the bot, by telegram_id
TelegramIds == {"u1", "u2"}

\* who starts cycles: the scheduler's interval job and the /checknow and
\* /unseed command handlers
Starters == {"scheduled", "manual"}

vars == <<volVars, snapVars, ledgerVars, cycleVars>>

(***************************************************************************)
(* database.py: threshold and baseline stores.                             *)
(***************************************************************************)
HasRow(table, slug, threshold) ==
    \E r \in table : r.event_slug = slug /\ r.threshold = threshold

\* a plain INSERT that adds the row whatever the table holds
record_milestone_always_inserts(table, slug, threshold, volume) ==
    table \cup {[event_slug |-> slug, threshold |-> threshold,
                 volume_at_crossing |-> volume]}

\* INSERT OR IGNORE under UNIQUE(event_slug, threshold)
record_milestone(table, slug, threshold, volume) ==
    IF HasRow(table, slug, threshold)
    THEN table
    ELSE table \cup {[event_slug |-> slug, threshold |-> threshold,
                      volume_at_crossing |-> volume]}

\* executemany of the same INSERT OR IGNORE over (slug, threshold, volume) tuples
RECURSIVE record_milestones_bulk(_, _)
record_milestones_bulk(table, milestones) ==
    IF milestones = <<>> THEN table
    ELSE record_milestones_bulk(
             record_milestone(table, Head(milestones)[1], Head(milestones)[2],
                              Head(milestones)[3]),
             Tail(milestones))

\* SELECT ... WHERE event_slug IN (slugs): absent slugs were never baselined
get_volume_baselines_bulk(baselines, slugs) ==
    [s \in (DOMAIN baselines) \cap Range(slugs) |-> baselines[s]]

\* an INSERT OR IGNORE that keeps the last_volume of a row that exists
UpsertBaseline_keeps_existing(baselines, slug, volume) ==
    [s \in (DOMAIN baselines) \cup {slug} |->
        IF s \in DOMAIN baselines THEN baselines[s] ELSE volume]

\* INSERT ... ON CONFLICT(event_slug) DO UPDATE SET last_volume
UpsertBaseline(baselines, slug, volume) ==
    [s \in (DOMAIN baselines) \cup {slug} |->
        IF s = slug THEN volume ELSE baselines[s]]

\* executemany of the upsert over (slug, volume) tuples
RECURSIVE update_volume_baselines_bulk(_, _)
update_volume_baselines_bulk(baselines, volumes) ==
    IF volumes = <<>> THEN baselines
    ELSE update_volume_baselines_bulk(
             UpsertBaseline(baselines, Head(volumes)[1], Head(volumes)[2]),
             Tail(volumes))

(***************************************************************************)
(* alerts.py: volume milestones (baseline + delta).                        *)
(***************************************************************************)
\* the comparison made strict: a volume equal to a threshold does not satisfy it
SatisfiedThresholds_strict(volume, thresholds) ==
    SelectSeq(thresholds, LAMBDA t : volume > t)

\* for threshold in thresholds: if volume >= threshold
SatisfiedThresholds(volume, thresholds) ==
    SelectSeq(thresholds, LAMBDA t : volume >= t)

\* the lower comparison made weak: a baseline equal to a threshold crosses it
CrossedThresholds_from_equal(previous_volume, current_volume, thresholds) ==
    SelectSeq(thresholds, LAMBDA t : previous_volume <= t /\ t <= current_volume)

\* for threshold in thresholds: if previous_volume < threshold <= current_volume
CrossedThresholds(previous_volume, current_volume, thresholds) ==
    SelectSeq(thresholds, LAMBDA t : previous_volume < t /\ t <= current_volume)

\* any timestamp that parses counts as recent
is_recently_created_any_age(created_at, max_hours) ==
    created_at.kind = "aware"

\* is_recently_created: False unless the string is an ISO timestamp with a "T"
\* that parses to an offset-aware time at most max_hours old
is_recently_created(created_at, max_hours) ==
    IF created_at.kind = "empty" THEN FALSE            \* not created_at_str
    ELSE IF created_at.kind = "date_only" THEN FALSE   \* no "T" in the string
    ELSE IF created_at.kind \in {"malformed", "naive"} THEN FALSE  \* except:
    ELSE created_at.hours_old <= max_hours

RECURSIVE SeedBaselineTuples(_)
SeedBaselineTuples(events) ==
    IF events = <<>> THEN <<>>
    ELSE <<<<Head(events).slug, Head(events).total_volume>>>>
             \o SeedBaselineTuples(Tail(events))

RECURSIVE SeedMilestoneTuples(_, _)
SeedMilestoneTuples(events, thresholds) ==
    IF events = <<>> THEN <<>>
    ELSE LET e  == Head(events)
             ts == SatisfiedThresholds(e.total_volume, thresholds)
         IN  [i \in 1..Len(ts) |-> <<e.slug, ts[i], e.total_volume>>]
                 \o SeedMilestoneTuples(Tail(events), thresholds)

\* seed_volume_baselines: baselines and already-crossed thresholds for every
\* fetched event, no alerts; the stores it leaves behind.
seed_volume_baselines(events, thresholds) ==
    [baselines  |-> update_volume_baselines_bulk(volume_baselines,
                                                 SeedBaselineTuples(events)),
     milestones |-> record_milestones_bulk(volume_milestones,
                                           SeedMilestoneTuples(events, thresholds))]

\* the first-seen branch without `baselines_to_update.append((slug,
\* current_volume))`: the market is left without a baseline
FirstSeenStep_no_baseline(acc, event, thresholds, record, min_discovery_volume, discovery_max_age_hours) ==
    LET current_volume == event.total_volume
        satisfied == SatisfiedThresholds(current_volume, thresholds)
        is_discovery ==
            /\ current_volume >= min_discovery_volume
            /\ is_recently_created(event.created_at, discovery_max_age_hours)
        highest == IF satisfied # <<>> THEN Max(satisfied) ELSE min_discovery_volume
    IN  [table |-> IF record
                   THEN record_milestones_bulk(acc.table,
                            [i \in 1..Len(satisfied) |->
                                <<event.slug, satisfied[i], current_volume>>])
                   ELSE acc.table,
         crossed |-> acc.crossed,
         disc |-> IF is_discovery
                  THEN Append(acc.disc,
                              [slug |-> event.slug,
                               current_volume |-> current_volume,
                               threshold |-> highest,
                               yes_price |-> event.yes_price,
                               created_at |-> event.created_at,
                               is_discovery |-> TRUE])
                  ELSE acc.disc,
         upd |-> acc.upd]

\* check_volume_milestones, body of `for event in events` when the market has
\* no baseline (previous_volume is None).
FirstSeenStep(acc, event, thresholds, record, min_discovery_volume, discovery_max_age_hours) ==
    LET current_volume == event.total_volume
        satisfied == SatisfiedThresholds(current_volume, thresholds)
        recorded  == IF record
                     THEN record_milestones_bulk(acc.table,
                              [i \in 1..Len(satisfied) |->
                                  <<event.slug, satisfied[i], current_volume>>])
                     ELSE acc.table
        is_discovery ==
            /\ current_volume >= min_discovery_volume
            /\ is_recently_created(event.created_at, discovery_max_age_hours)
        highest == IF satisfied # <<>> THEN Max(satisfied) ELSE min_discovery_volume
    IN  [table |-> recorded,
         crossed |-> acc.crossed,
         disc |-> IF is_discovery
                  THEN Append(acc.disc,
                              [slug |-> event.slug,
                               current_volume |-> current_volume,
                               threshold |-> highest,
                               yes_price |-> event.yes_price,
                               created_at |-> event.created_at,
                               is_discovery |-> TRUE])
                  ELSE acc.disc,
         upd |-> Append(acc.upd, <<event.slug, current_volume>>)]

\* check_volume_milestones, body of `for event in events` for a baselined market.
BaselinedStep(acc, event, previous_volume, thresholds, record) ==
    LET current_volume == event.total_volume
        crossed_thresholds ==
            CrossedThresholds(previous_volume, current_volume, thresholds)
        recorded == IF record
                    THEN record_milestones_bulk(acc.table,
                             [i \in 1..Len(crossed_thresholds) |->
                                 <<event.slug, crossed_thresholds[i], current_volume>>])
                    ELSE acc.table
        highest == Max(crossed_thresholds)
        also_crossed == SelectSeq(crossed_thresholds, LAMBDA t : t # highest)
    IN  [table |-> recorded,
         crossed |-> IF crossed_thresholds # <<>>
                     THEN Append(acc.crossed,
                                 [slug |-> event.slug,
                                  threshold |-> highest,
                                  also_crossed |-> also_crossed,
                                  previous_volume |-> previous_volume,
                                  current_volume |-> current_volume,
                                  yes_price |-> event.yes_price])
                     ELSE acc.crossed,
         disc |-> acc.disc,
         upd |-> Append(acc.upd, <<event.slug, current_volume>>)]

RECURSIVE MilestoneLoop(_, _, _, _, _, _, _)
MilestoneLoop(acc, events, baselines, thresholds, record, min_discovery_volume, discovery_max_age_hours) ==
    IF events = <<>> THEN acc
    ELSE LET event == Head(events)
             next  == IF event.slug \notin DOMAIN baselines
                      THEN FirstSeenStep(acc, event, thresholds, record,
                                         min_discovery_volume,
                                         discovery_max_age_hours)
                      ELSE BaselinedStep(acc, event, baselines[event.slug],
                                         thresholds, record)
         IN  MilestoneLoop(next, Tail(events), baselines, thresholds, record,
                           min_discovery_volume, discovery_max_age_hours)

\* check_volume_milestones once seeded: what it returns and the stores it
\* leaves behind, for the listing `fetched`.
check_volume_milestones(fetched, thresholds, record, min_discovery_volume, discovery_max_age_hours) ==
    LET events    == filter_resolved(filter_sports(fetched))
        slugs     == [i \in 1..Len(events) |-> events[i].slug]
        baselines == get_volume_baselines_bulk(volume_baselines, slugs)
        out == MilestoneLoop([table |-> volume_milestones, crossed |-> <<>>,
                              disc |-> <<>>, upd |-> <<>>],
                             events, baselines, thresholds, record,
                             min_discovery_volume, discovery_max_age_hours)
    IN  [milestones_crossed |-> SortDesc(out.crossed, "threshold"),
         discoveries |-> SortDesc(out.disc, "current_volume"),
         milestones |-> out.table,
         baselines |-> IF record /\ out.upd # <<>>
                       THEN update_volume_baselines_bulk(volume_baselines, out.upd)
                       ELSE volume_baselines]

(***************************************************************************)
(* Operations on the volume stores.                                        *)
(***************************************************************************)
\* the listings a fetch can return now
Listings ==
    {[i \in 1..Len(l) |->
         [slug |-> l[i].slug, total_volume |-> l[i].total_volume,
          yes_price |-> l[i].yes_price, created_at |-> created_at_of[l[i].slug]]] :
     l \in QuoteListings}

\* how often each (slug, threshold) is named by the candidates of one pass
Named(candidates, slug, threshold) ==
    Cardinality({i \in 1..Len(candidates) :
                    /\ candidates[i].slug = slug
                    /\ \/ candidates[i].threshold = threshold
                       \/ threshold \in Range(candidates[i].also_crossed)})

\* how often the market is named by the discovery candidates of one pass
Discovered(candidates, slug) ==
    Cardinality({i \in 1..Len(candidates) : candidates[i].slug = slug})

\* the most operations on the volume stores in one behaviour
MaxPasses == 4

ThresholdSet == Range(VOLUME_THRESHOLDS)

\* A call of check_volume_milestones(thresholds=None, record=record,
\* min_discovery_volume=None, discovery_max_age_hours=48).
CheckVolumeMilestones ==
    \E fetched \in Listings, record \in BOOLEAN :
        /\ passes < MaxPasses
        /\ passes' = passes + 1
        /\ lastEvents' = fetched
        /\ IF ~seeded
           THEN LET s == seed_volume_baselines(fetched, VOLUME_THRESHOLDS)
                IN  /\ lastOp' = "seed"
                    /\ lastRecord' = TRUE
                    /\ volume_baselines' = s.baselines
                    /\ volume_milestones' = s.milestones
                    /\ seeded' = TRUE
                    /\ milestones_crossed' = <<>>
                    /\ discoveries' = <<>>
                    /\ UNCHANGED <<emitted, discovered, created_at_of, snapVars, ledgerVars,
                                   cycleVars>>
           ELSE LET r == check_volume_milestones(fetched, VOLUME_THRESHOLDS, record,
                                                 DISCOVERY_MIN_VOLUME, 48)
                    count == [p \in Markets \X ThresholdSet |->
                                 emitted[p] + IF record
                                              THEN Named(r.milestones_crossed, p[1], p[2])
                                              ELSE 0]
                IN  /\ lastOp' = "detect"
                    /\ lastRecord' = record
                    /\ volume_baselines' = r.baselines
                    /\ volume_milestones' = r.milestones
                    /\ milestones_crossed' = r.milestones_crossed
                    /\ discoveries' = r.discoveries
                    /\ emitted' = count
                    /\ discovered' =
                           [m \in Markets |->
                               discovered[m] + IF record
                                               THEN Discovered(r.discoveries, m)
                                               ELSE 0]
                    /\ UNCHANGED <<seeded, created_at_of, snapVars, ledgerVars, cycleVars>>

\* A call of database.record_milestone(slug, threshold, volume).
RecordMilestone ==
    \E slug \in Markets, threshold \in ThresholdSet, volume \in Volumes :
        /\ volume \in VolumesOf(slug)
        /\ volume >= threshold
        /\ passes < MaxPasses
        /\ passes' = passes + 1
        /\ lastOp' = "record_milestone"
        /\ volume_milestones' = record_milestone(volume_milestones, slug, threshold, volume)
        /\ UNCHANGED <<created_at_of, seeded, volume_baselines, lastEvents,
                       lastRecord, milestones_crossed, discoveries, emitted, discovered,
                       snapVars,
                       ledgerVars, cycleVars>>

\* Time passes: the offset-aware creation timestamps grow older than the
\* discovery window.
Age ==
    /\ \E m \in Markets : created_at_of[m] = [kind |-> "aware", hours_old |-> 10]
    /\ created_at_of' =
           [m \in Markets |->
               IF created_at_of[m].kind = "aware"
               THEN [kind |-> "aware", hours_old |-> 49]
               ELSE created_at_of[m]]
    /\ lastOp' = "age"
    /\ UNCHANGED <<seeded, volume_baselines, volume_milestones, lastEvents,
                   lastRecord, milestones_crossed, discoveries, emitted, discovered,
                   passes,
                   snapVars, ledgerVars, cycleVars>>

VolInit ==
    /\ created_at_of \in {f \in [Markets -> CreatedAts] :
                             \A m \in Markets : f[m] \in CreatedAtsOf(m)}
    /\ seeded = FALSE
    /\ volume_baselines = [s \in {} |-> 0]
    /\ volume_milestones = {}
    /\ lastOp = "init"
    /\ lastEvents = <<>>
    /\ lastRecord = TRUE
    /\ milestones_crossed = <<>>
    /\ discoveries = <<>>
    /\ emitted = [p \in Markets \X ThresholdSet |-> 0]
    /\ discovered = [m \in Markets |-> 0]
    /\ passes = 0

SnapInit ==
    /\ now = 0
    /\ volume_snapshots = <<>>
    /\ lastSlugs = <<>>
    /\ lastHours = 1
    /\ deltas = [s \in {} |-> 0]
    /\ wakeups = <<>>

\* the delivery, snapshot and seen-market stores empty, no cycle run and no
\* call made yet
StoresInit ==
    /\ user_alerts = {}
    /\ channel_alerts = <<>>
    /\ lastCandidates = {}
    /\ lastFailed = {}
    /\ delivered = <<>>
    /\ cycles = 0
    /\ price_snapshots = <<>>
    /\ lastInput = [responses |-> <<>>, write_fault |-> "none", raising |-> {}]
    /\ trace = <<>>
    /\ pc = [w \in Starters |-> [at |-> 0, runs |-> 0]]
    /\ velocity_alerts = <<>>
    /\ big_moves = <<>>
    /\ last_cycle_time = <<>>
    /\ last_cycle_stats = <<>>
    /\ returned = [by |-> "", raised |-> FALSE, out |-> <<>>, read |-> <<>>]
    /\ seen_markets = <<>>
    /\ returned_new = {}
    /\ redis_data = <<>>
    /\ cache_call = [op |-> "", raised |-> FALSE]
    /\ user_settings = [u \in TelegramIds |->
                           [new_markets_enabled |-> TRUE, big_moves_enabled |-> TRUE]]
    /\ watchlist = <<>>
    /\ watch_alerts = <<>>
    /\ sending = [w \in Starters |-> <<>>]
    /\ stale_keys = {}

\* the same, the redis package installed and no client connected yet
LedgerInit ==
    /\ StoresInit
    /\ cache_module = [REDIS_AVAILABLE |-> TRUE, redis_client |-> FALSE,
                       redis_enabled |-> TRUE]

\* a per-user deployment with empty stores, the markets' creation timestamps
\* of any kind
VolumeInit == VolInit /\ SnapInit /\ LedgerInit /\ use_channel = FALSE

\* the same, no market carrying a creation timestamp
SnapshotsInit ==
    /\ VolumeInit
    /\ created_at_of = [m \in Markets |-> [kind |-> "empty", hours_old |-> 0]]

\* empty stores, in broadcast mode or in per-user mode
Init ==
    /\ VolInit /\ SnapInit /\ LedgerInit
    /\ created_at_of = [m \in Markets |-> [kind |-> "empty", hours_old |-> 0]]
    /\ use_channel \in BOOLEAN

VolNext ==
    \/ CheckVolumeMilestones
    \/ RecordMilestone
    \/ Age

SpecVolume == VolumeInit /\ [][VolNext]_vars


(***************************************************************************)
(* database.py: volume snapshots and deltas; alerts.py: wakeup.            *)
(***************************************************************************)
\* INSERT INTO volume_snapshots (event_slug, volume) per event; recorded_at
\* defaults to the time of the insert
save_volume_snapshots_bulk(table, events, at) ==
    table \o [i \in 1..Len(events) |->
                 [event_slug |-> events[i].slug, volume |-> events[i].total_volume,
                  recorded_at |-> at]]

\* the rows ROW_NUMBER() OVER (PARTITION BY event_slug ORDER BY recorded_at DESC)
\* can number 1 among the rows `among` of one market: SQLite leaves the order of
\* rows with equal recorded_at open
FirstRanked(table, among) ==
    {i \in among : \A j \in among : table[j].recorded_at <= table[i].recorded_at}

\* a LEFT JOIN that reports 0 for a market without an old snapshot
get_volume_deltas_bulk_zero_filled(table, event_slugs, hours, at) ==
    LET rows(s) == {i \in DOMAIN table : table[i].event_slug = s}
        old(s)  == {i \in rows(s) : table[i].recorded_at <= at - hours}
        joined  == {s \in Range(event_slugs) : rows(s) # {}}
    IN  {[s \in joined |->
             IF old(s) = {} THEN 0 ELSE table[c[s]].volume - table[o[s]].volume] :
         c \in {g \in [joined -> DOMAIN table] :
                   \A s \in joined : g[s] \in FirstRanked(table, rows(s))},
         o \in {g \in [joined -> DOMAIN table] :
                   \A s \in joined :
                       old(s) # {} => g[s] \in FirstRanked(table, old(s))}}

\* get_volume_deltas_bulk: the result maps the query can return. current_volumes
\* ranks all rows of a requested market, old_volumes the rows with
\* recorded_at <= datetime('now', '-hours hours'); the JOIN keeps the markets
\* that have a first row in both.
get_volume_deltas_bulk(table, event_slugs, hours, at) ==
    LET rows(s) == {i \in DOMAIN table : table[i].event_slug = s}
        old(s)  == {i \in rows(s) : table[i].recorded_at <= at - hours}
        joined  == {s \in Range(event_slugs) : rows(s) # {} /\ old(s) # {}}
    IN  {[s \in joined |-> table[c[s]].volume - table[o[s]].volume] :
         c \in {g \in [joined -> DOMAIN table] :
                   \A s \in joined : g[s] \in FirstRanked(table, rows(s))},
         o \in {g \in [joined -> DOMAIN table] :
                   \A s \in joined : g[s] \in FirstRanked(table, old(s))}}

\* deltas.get(slug, 0)
GetOr0(map, slug) == IF slug \in DOMAIN map THEN map[slug] ELSE 0

\* the past velocity taken over the whole window instead of per hour
IsWakeup_not_per_hour(velocity_1h, velocity_6h, total_volume, quiet_threshold, hot_threshold, quiet_hours) ==
    /\ velocity_6h * 100 < quiet_threshold * total_volume
    /\ velocity_1h * 100 >= hot_threshold * total_volume

\* velocity_pct_past < quiet_threshold and velocity_pct_now >= hot_threshold,
\* with velocity_pct_now = velocity_1h / total_volume * 100 and
\* velocity_pct_past = velocity_6h / total_volume * 100 / quiet_hours
\* (total_volume > 0), as exact fractions
IsWakeup(velocity_1h, velocity_6h, total_volume, quiet_threshold, hot_threshold, quiet_hours) ==
    /\ velocity_6h * 100 < quiet_threshold * quiet_hours * total_volume
    /\ velocity_1h * 100 >= hot_threshold * total_volume

\* wakeups.sort(key=velocity_pct_now, reverse=True): a stable sort, the keys
\* velocity_1h * 100 / total_volume compared as fractions
SortWakeups(s) ==
    LET hotter(a, b) == a.velocity_now * b.total_volume > b.velocity_now * a.total_volume
        rank(i) == 1 + Cardinality({j \in 1..Len(s) :
                                       \/ hotter(s[j], s[i])
                                       \/ ~hotter(s[i], s[j]) /\ j < i})
    IN  [k \in 1..Len(s) |-> s[CHOOSE i \in 1..Len(s) : rank(i) = k]]

\* check_wakeup_alerts, the loop over the pre-filtered events
RECURSIVE WakeupLoop(_, _, _, _, _, _, _)
WakeupLoop(acc, events, d1h, d6h, quiet_threshold, hot_threshold, quiet_hours) ==
    IF events = <<>> THEN acc
    ELSE LET event        == Head(events)
             total_volume == event.total_volume
             velocity_1h  == GetOr0(d1h, event.slug)
             velocity_6h  == GetOr0(d6h, event.slug)
             next ==
                 IF total_volume = 0 THEN acc
                 ELSE IF IsWakeup(velocity_1h, velocity_6h, total_volume,
                                  quiet_threshold, hot_threshold, quiet_hours)
                 THEN Append(acc,
                             [slug |-> event.slug,
                              yes_price |-> event.yes_price,
                              total_volume |-> total_volume,
                              velocity_past |-> [num |-> velocity_6h,
                                                 den |-> quiet_hours],
                              velocity_pct_past |-> [num |-> velocity_6h * 100,
                                                     den |-> total_volume * quiet_hours],
                              velocity_now |-> velocity_1h,
                              velocity_pct_now |-> [num |-> velocity_1h * 100,
                                                    den |-> total_volume]])
                 ELSE acc
         IN  WakeupLoop(next, Tail(events), d1h, d6h, quiet_threshold,
                        hot_threshold, quiet_hours)

\* check_wakeup_alerts for the listing `fetched` and the two delta maps it read
check_wakeup_alerts(fetched, d1h, d6h, quiet_threshold, hot_threshold, quiet_hours) ==
    SortWakeups(WakeupLoop(<<>>, filter_resolved(filter_sports(fetched)), d1h, d6h,
                           quiet_threshold, hot_threshold, quiet_hours))

(***************************************************************************)
(* Operations on the snapshot store.                                       *)
(***************************************************************************)
\* the volumes a snapshot or a listing holds for the market watched for wakeups
SnapshotVolumes == {88000, 91000, 92000, 100000}

\* the listings a fetch can return when the watched market has a volume of
\* `volumes`: one entry per market, largest volume first
SnapshotListingsOver(volumes) ==
    LET quotes == {q \in [slug : Markets, total_volume : volumes \cup {100000},
                          yes_price : Prices] :
                      /\ q.slug = "nfl-y" => q.total_volume = 100000
                      /\ q.slug # "nfl-y" => q.total_volume \in volumes
                      /\ q.yes_price \in PricesOf(q.slug)
                      /\ q.yes_price = 97 => q.total_volume = 100000}
    IN  {l \in UNION {[1..n -> quotes] : n \in 0..Cardinality(Markets)} :
            IsListing(l)}

\* the listings whose volumes a cycle saves: one market a fetch; the price
\* plays no part
SnapshotListings ==
    {l \in SnapshotListingsOver(SnapshotVolumes) :
        Len(l) <= 1 /\ \A i \in 1..Len(l) : l[i].yes_price = 50}

\* the listings the fetch of a wakeup pass can return, one market a fetch: the
\* watched market has no volume yet or 100000
WakeupListings == {l \in SnapshotListingsOver({0, 100000}) : Len(l) <= 1}

\* the times the clock visits: the edges of the quiet window and of the hot hour
Hours == {0, 5, 6}

\* the most rows the snapshot store holds
MaxSnapshots == 3

\* time passes up to the next hour the clock visits
Tick ==
    /\ \E h \in Hours : h > now
    /\ now' = CHOOSE h \in Hours : h > now /\ \A g \in Hours : g > now => h <= g
    /\ lastOp' = "tick"
    /\ ClearDeltas /\ ClearWakeups
    /\ UNCHANGED <<volVarsButEvents, volume_snapshots, ledgerVars, cycleVars>>

\* save_volume_snapshots_bulk(events) for a fetched listing
SaveVolumeSnapshots ==
    \E fetched \in SnapshotListings :
        /\ Len(volume_snapshots) + Len(fetched) <= MaxSnapshots
        /\ fetched # <<>>
        /\ volume_snapshots' = save_volume_snapshots_bulk(volume_snapshots, fetched, now)
        /\ lastOp' = "save"
        /\ ClearDeltas /\ ClearWakeups
        /\ UNCHANGED <<volVarsButEvents, now, ledgerVars, cycleVars>>

\* the lists of markets a caller asks deltas for
SlugLists == {<<>>, <<"mkt-x">>, <<"mkt-x", "nfl-y">>}

\* get_volume_deltas_bulk(event_slugs, hours)
GetVolumeDeltasBulk ==
    \E event_slugs \in SlugLists, hours \in {1, 6} :
        \E result \in get_volume_deltas_bulk(volume_snapshots, event_slugs, hours, now) :
            /\ lastSlugs' = event_slugs
            /\ lastHours' = hours
            /\ deltas' = result
            /\ lastOp' = "deltas"
            /\ ClearWakeups
            /\ UNCHANGED <<volVarsButEvents, now, volume_snapshots, ledgerVars, cycleVars>>

\* check_wakeup_alerts() with its default thresholds 2.0, 10.0 and 6 hours
CheckWakeupAlerts ==
    \E fetched \in WakeupListings :
        LET events == filter_resolved(filter_sports(fetched))
            slugs  == [i \in 1..Len(events) |-> events[i].slug]
        IN  /\ lastEvents' = fetched
            /\ wakeups' \in
                   {check_wakeup_alerts(fetched, d1h, d6h, 2, 10, 6) :
                       d1h \in get_volume_deltas_bulk(volume_snapshots, slugs, 1, now),
                       d6h \in get_volume_deltas_bulk(volume_snapshots, slugs, 6, now)}
            /\ lastOp' = "wakeup"
            /\ ClearDeltas
            /\ UNCHANGED <<volVarsButEvents, now, volume_snapshots, ledgerVars, cycleVars>>

SnapNext ==
    \/ Tick
    \/ SaveVolumeSnapshots
    \/ GetVolumeDeltasBulk
    \/ CheckWakeupAlerts

SpecSnapshots == SnapshotsInit /\ [][SnapNext]_vars


(***************************************************************************)
(* polymarket.py: the paginated fetch of the listing.                      *)
(***************************************************************************)
MARKETS_TO_SCAN == 2000

\* what the upstream answers to one page request: a page of events, an HTTP
\* error (httpx.HTTPError) or a body that response.json() cannot parse
OkPage(events) == [kind |-> "ok", events |-> events]
HttpError == [kind |-> "http_error", events |-> <<>>]
BadBody == [kind |-> "bad_body", events |-> <<>>]

\* the answer to the n-th page request: past the last page the upstream
\* answers with an empty page
ResponseAt(responses, n) ==
    IF n <= Len(responses) THEN responses[n] ELSE OkPage(<<>>)

\* fetch_events_paginated, `for _ in range(max_pages)`: an HTTP error or an
\* empty page ends the loop with the events fetched so far; any other
\* exception leaves the function
RECURSIVE FetchPages(_, _, _, _, _)
FetchPages(responses, page, max_pages, all_events, target_count) ==
    IF page > max_pages THEN [raised |-> FALSE, events |-> all_events]
    ELSE LET response == ResponseAt(responses, page)
         IN  IF response.kind = "http_error"
             THEN [raised |-> FALSE, events |-> all_events]
             ELSE IF response.kind = "bad_body"
             THEN [raised |-> TRUE, events |-> <<>>]
             ELSE IF response.events = <<>>
             THEN [raised |-> FALSE, events |-> all_events]
             ELSE IF Len(all_events \o response.events) >= target_count
             THEN [raised |-> FALSE, events |-> all_events \o response.events]
             ELSE FetchPages(responses, page + 1, max_pages,
                             all_events \o response.events, target_count)

fetch_events_paginated(responses, target_count, page_size) ==
    LET pages     == (target_count \div page_size) + 1
        max_pages == IF pages < 100 THEN pages ELSE 100
        fetched   == FetchPages(responses, 1, max_pages, <<>>, target_count)
    IN  [raised |-> fetched.raised,
         events |-> SubSeq(fetched.events, 1,
                           IF Len(fetched.events) < target_count
                           THEN Len(fetched.events) ELSE target_count)]

\* get_all_markets_paginated, the grouping by event slug: the first market of
\* a slug opens the entry, a later one adds its volume when it differs from
\* the entry's and raises the entry's yes_price when higher
RECURSIVE GroupBySlug(_, _)
GroupBySlug(event_map, markets) ==
    IF markets = <<>> THEN event_map
    ELSE LET market == Head(markets)
             at     == {i \in 1..Len(event_map) : event_map[i].slug = market.slug}
             next ==
                 IF at = {}
                 THEN Append(event_map, market)
                 ELSE LET i == CHOOSE j \in at : TRUE
                          volume == IF event_map[i].total_volume # market.total_volume
                                    THEN event_map[i].total_volume + market.total_volume
                                    ELSE event_map[i].total_volume
                          price  == IF market.yes_price > event_map[i].yes_price
                                    THEN market.yes_price
                                    ELSE event_map[i].yes_price
                      IN  [event_map EXCEPT ![i] =
                              [slug |-> market.slug, total_volume |-> volume,
                               yes_price |-> price]]
         IN  GroupBySlug(next, Tail(markets))

\* get_all_markets_paginated on a cache miss: the unique events, largest
\* volume first, or the exception of the fetch
get_all_markets_paginated(responses, target_count) ==
    LET fetched == fetch_events_paginated(responses, target_count, 100)
    IN  [raised |-> fetched.raised,
         events |-> IF fetched.raised THEN <<>>
                    ELSE SortDesc(GroupBySlug(<<>>, fetched.events), "total_volume")]

(***************************************************************************)
(* scheduler.py: the alert cycle; database.py: the delivery records.       *)
(***************************************************************************)
\* the signal families in the order run_alert_cycle checks them
Families == <<"wakeup", "fast_mover", "big_swing", "early_heat", "new_launch">>

\* the channel, and the users with alerts and new_markets_enabled on
Channel == "channel"
AlertUsers == <<"u1", "u2">>

Abs(x) == IF x < 0 THEN -x ELSE x

Min(a, b) == IF a < b THEN a ELSE b

\* the dict a detector of the family returns for a market of the listing;
\* check_fast_mover_alerts' dicts hold current_price and no yes_price, so
\* market.get("yes_price", 0) reads 0 from them
Candidate(family, event) ==
    [slug |-> event.slug,
     yes_price |-> IF family = "fast_mover" THEN 0 ELSE event.yes_price,
     price |-> event.yes_price]

\* the channel's delivery record of each market alerted in the last `hours`
\* hours, under any family: the latest one
get_recently_alerted_with_prices(table, hours, at) ==
    LET recent(slug) == {i \in DOMAIN table :
                            /\ table[i].event_slug = slug
                            /\ table[i].alerted_at > at - hours}
        slugs == {table[i].event_slug : i \in DOMAIN table}
    IN  [slug \in {m \in slugs : recent(m) # {}} |->
            table[CHOOSE i \in recent(slug) : \A j \in recent(slug) : j <= i]]

\* a fresh record per market sent, with the price it was sent at
mark_channel_alerted_bulk(table, markets, alert_type, at) ==
    table \o [i \in 1..Len(markets) |->
                 [event_slug |-> markets[i].slug, alert_type |-> alert_type,
                  yes_price |-> markets[i].yes_price, alerted_at |-> at]]

\* INSERT OR IGNORE INTO user_alerts per slug
mark_user_alerted_bulk(table, telegram_id, event_slugs, alert_type) ==
    table \cup {<<telegram_id, event_slugs[i], alert_type>> : i \in 1..Len(event_slugs)}

\* every market passes, seen or not
filter_unseen_markets_keeps_all(table, telegram_id, markets, alert_type) ==
    markets

\* the markets the user has no user_alerts row for under this alert type
filter_unseen_markets(table, telegram_id, markets, alert_type) ==
    LET seen_slugs == {r[2] : r \in {q \in table : q[1] = telegram_id /\ q[3] = alert_type}}
    IN  SelectSeq(markets, LAMBDA m : m.slug \notin seen_slugs)

\* a recently alerted market is blocked whatever its price
should_filter_market_no_override(market, cycle_alerted_slugs, recently_alerted_data) ==
    \/ market.slug \in cycle_alerted_slugs
    \/ market.slug \in DOMAIN recently_alerted_data

\* run_alert_cycle.should_filter_market: TRUE when the market is blocked
should_filter_market(market, cycle_alerted_slugs, recently_alerted_data) ==
    IF market.slug \in cycle_alerted_slugs THEN TRUE
    ELSE IF market.slug \notin DOMAIN recently_alerted_data THEN FALSE
    ELSE LET old_price == recently_alerted_data[market.slug].yes_price
             new_price == market.yes_price
         IN  IF old_price = 0 THEN TRUE
             ELSE IF Abs(new_price - old_price) >= 20 THEN FALSE
             ELSE TRUE

\* the deliveries of one successful send
Deliveries(recipient, to_send, family, at) ==
    [i \in 1..Len(to_send) |->
        [recipient |-> recipient, slug |-> to_send[i].slug, family |-> family,
         yes_price |-> to_send[i].yes_price, price |-> to_send[i].price,
         at |-> at]]

\* the slugs no later block of the cycle gets to see again
Slugs_forgotten(markets) == {}

Slugs(markets) == {markets[i].slug : i \in 1..Len(markets)}

\* INSERT INTO price_snapshots (event_slug, yes_price) per event, one commit
save_price_snapshots_bulk(table, events, at) ==
    table \o [i \in 1..Len(events) |->
                 [event_slug |-> events[i].slug, yes_price |-> events[i].yes_price,
                  recorded_at |-> at]]

\* format_bundled_wakeups and its siblings: a header and one entry per alert
\* of the list they are given
format_bundled(family, alerts) ==
    [header |-> family, entries |-> [i \in 1..Len(alerts) |-> alerts[i].slug]]

\* one step of a cycle, as the trace records it
Step(ev, family, recipient, message, candidates, ok) ==
    [ev |-> ev, family |-> family, recipient |-> recipient, message |-> message,
     candidates |-> candidates, ok |-> ok]

NoMessage == format_bundled("", <<>>)

\* the send reports success although the chat layer refused the message
send_alert_to_user_always_sent(failed, telegram_id, alert_type) == TRUE

\* send_alert_to_user: TRUE when the message went out, FALSE when
\* send_message raised
send_alert_to_user(failed, telegram_id, alert_type) ==
    <<telegram_id, alert_type>> \notin failed

\* send_alert_to_channel, ALERT_CHANNEL_ID being set
send_alert_to_channel(failed, alert_type) ==
    <<Channel, alert_type>> \notin failed

\* one family's block in channel mode: cap, format, send, and on success
\* remember the slugs for the rest of the cycle and persist the records
ChannelBlock(acc, family, candidates, failed, raising, at) ==
    LET to_send == SubSeq(candidates, 1, Min(ALERT_CAP_PER_CYCLE, Len(candidates)))
        message == format_bundled(family, to_send)
        sent    == send_alert_to_channel(failed, family)
        tried   == [acc EXCEPT !.trace =
                       Append(@, Step("send", family, Channel, message,
                                      Len(candidates), sent))]
    IN  IF <<family, "deliver">> \in raising
        THEN [acc EXCEPT !.trace =
                 Append(@, Step("raised", family, Channel, NoMessage,
                                Len(candidates), FALSE))]
        ELSE IF ~sent THEN tried
        ELSE [tried EXCEPT
                 !.cycle_alerted_slugs = @ \cup Slugs(to_send),
                 !.channel_alerts = mark_channel_alerted_bulk(@, to_send, family, at),
                 !.delivered = @ \o Deliveries(Channel, to_send, family, at)]

\* one family's block in per-user mode: `for user in alert_users`; an
\* exception leaves the loop
RECURSIVE UserBlock(_, _, _, _, _, _, _)
UserBlock(acc, users, family, candidates, failed, raising, at) ==
    IF users = <<>> THEN acc
    ELSE LET user_id == Head(users)
             unseen  == filter_unseen_markets(acc.user_alerts, user_id, candidates,
                                              family)
             to_send == SubSeq(unseen, 1, Min(ALERT_CAP_PER_CYCLE, Len(unseen)))
             message == format_bundled(family, to_send)
             sent    == send_alert_to_user(failed, user_id, family)
             tried   == [acc EXCEPT !.trace =
                            Append(@, Step("send", family, user_id, message,
                                           Len(unseen), sent))]
             next ==
                 IF unseen = <<>> THEN acc
                 ELSE IF ~sent THEN tried
                 ELSE [tried EXCEPT
                          !.user_alerts =
                              mark_user_alerted_bulk(@, user_id,
                                  [i \in 1..Len(to_send) |-> to_send[i].slug], family),
                          !.cycle_alerted_slugs = @ \cup Slugs(to_send),
                          !.delivered =
                              @ \o Deliveries(user_id, to_send, family, at)]
         IN  IF unseen # <<>> /\ <<family, "deliver">> \in raising
             THEN [acc EXCEPT !.trace =
                      Append(@, Step("raised", family, user_id, NoMessage,
                                     Len(unseen), FALSE))]
             ELSE UserBlock(next, Tail(users), family, candidates, failed, raising,
                            at)

\* the first exception ends the cycle's alert blocks
RECURSIVE AlertBlocks_stop_at_exception(_, _, _, _, _, _, _, _)
AlertBlocks_stop_at_exception(acc, families, detected, recently_alerted_data, channel, failed, raising, at) ==
    IF families = <<>> THEN acc
    ELSE LET family == Head(families)
             checked == [acc EXCEPT !.trace =
                            Append(@, Step("check", family, "", NoMessage,
                                           Len(detected[family]), TRUE))]
             candidates ==
                 SelectSeq(detected[family],
                           LAMBDA m : ~should_filter_market(m, acc.cycle_alerted_slugs,
                                                            recently_alerted_data))
             next == IF candidates = <<>> THEN checked
                     ELSE IF channel
                     THEN ChannelBlock(checked, family, candidates, failed, raising, at)
                     ELSE UserBlock(checked, AlertUsers, family, candidates, failed,
                                    raising, at)
         IN  IF <<family, "check">> \in raising
             THEN [acc EXCEPT !.trace =
                      Append(@, Step("check", family, "", NoMessage, 0, FALSE))]
             ELSE IF <<family, "deliver">> \in raising /\ candidates # <<>>
             THEN next
             ELSE AlertBlocks_stop_at_exception(next, Tail(families), detected,
                                                recently_alerted_data, channel,
                                                failed, raising, at)

\* a family's detector is only run once the family's bundles have been sent
RECURSIVE AlertBlocks_checks_after_sends(_, _, _, _, _, _, _, _)
AlertBlocks_checks_after_sends(acc, families, detected, recently_alerted_data, channel, failed, raising, at) ==
    IF families = <<>> THEN acc
    ELSE LET family == Head(families)
             candidates ==
                 SelectSeq(detected[family],
                           LAMBDA m : ~should_filter_market(m, acc.cycle_alerted_slugs,
                                                            recently_alerted_data))
             block == IF candidates = <<>> THEN acc
                      ELSE IF channel
                      THEN ChannelBlock(acc, family, candidates, failed, raising, at)
                      ELSE UserBlock(acc, AlertUsers, family, candidates, failed,
                                     raising, at)
             next == [block EXCEPT !.trace =
                         Append(@, Step("check", family, "", NoMessage,
                                        Len(detected[family]), TRUE))]
         IN  AlertBlocks_checks_after_sends(next, Tail(families), detected,
                                            recently_alerted_data, channel, failed,
                                            raising, at)

\* the five alert blocks of run_alert_cycle, one after the other, each in its
\* own try/except; detected[f] is what the family's detector returns, and
\* raising names the families whose detector or whose formatter raises
RECURSIVE AlertBlocks(_, _, _, _, _, _, _, _)
AlertBlocks(acc, families, detected, recently_alerted_data, channel, failed, raising, at) ==
    IF families = <<>> THEN acc
    ELSE LET family == Head(families)
             checked == [acc EXCEPT !.trace =
                            Append(@, Step("check", family, "", NoMessage,
                                           Len(detected[family]), TRUE))]
             candidates ==
                 SelectSeq(detected[family],
                           LAMBDA m : ~should_filter_market(m, acc.cycle_alerted_slugs,
                                                            recently_alerted_data))
             next == IF <<family, "check">> \in raising
                     THEN [acc EXCEPT !.trace =
                              Append(@, Step("check", family, "", NoMessage, 0, FALSE))]
                     ELSE IF candidates = <<>> THEN checked
                     ELSE IF channel
                     THEN ChannelBlock(checked, family, candidates, failed, raising, at)
                     ELSE UserBlock(checked, AlertUsers, family, candidates, failed,
                                    raising, at)
         IN  AlertBlocks(next, Tail(families), detected, recently_alerted_data,
                         channel, failed, raising, at)

\* run_alert_cycle(app): the stores and the history it leaves behind. The
\* fetch answers with `responses`; write_fault names the bulk snapshot write
\* that raises, if any; detected(events) is what the detectors return.
run_alert_cycle(responses, write_fault, detected, raising, failed, at) ==
    LET fetched == get_all_markets_paginated(responses, MARKETS_TO_SCAN)
        events  == fetched.events
        start   == [cycle_alerted_slugs |-> {}, user_alerts |-> user_alerts,
                    channel_alerts |-> channel_alerts, delivered |-> delivered,
                    volume_snapshots |-> volume_snapshots,
                    price_snapshots |-> price_snapshots, trace |-> <<>>]
        stop(ev) == Step(ev, "", "", NoMessage, 0, FALSE)
        recently_alerted_data ==
            IF use_channel
            THEN get_recently_alerted_with_prices(channel_alerts, 4, at)
            ELSE [s \in {} |-> 0]
    IN  IF fetched.raised
        THEN [start EXCEPT !.trace = <<stop("fetch_raised")>>]
        ELSE IF events = <<>>
        THEN [start EXCEPT !.trace = <<stop("no_events")>>]
        ELSE IF write_fault = "volume"
        THEN [start EXCEPT !.trace = <<stop("write_raised")>>]
        ELSE IF write_fault = "price"
        THEN [start EXCEPT
                 !.volume_snapshots = save_volume_snapshots_bulk(@, events, at),
                 !.trace = <<stop("write_raised")>>]
        ELSE AlertBlocks(
                 [start EXCEPT
                     !.volume_snapshots = save_volume_snapshots_bulk(@, events, at),
                     !.price_snapshots = save_price_snapshots_bulk(@, events, at),
                     !.trace = <<Step("snapshots", "", "", NoMessage, 0, TRUE)>>],
                 Families, detected, recently_alerted_data, use_channel, failed,
                 raising, at)

\* run_alert_cycle returned before its alert blocks: the fetch or a snapshot
\* write raised, or the fetch returned no event
ReturnedEarly(steps) ==
    steps # <<>> /\ steps[1].ev \in {"fetch_raised", "no_events", "write_raised"}

\* the stats dictionary run_alert_cycle returns: the markets whose snapshots
\* were saved and the sends that went out
cycle_stats(events, steps) ==
    [markets_scanned |-> IF ReturnedEarly(steps) THEN 0 ELSE Len(events),
     alerts_sent |-> Cardinality({i \in DOMAIN steps : steps[i].ev = "send" /\ steps[i].ok})]

\* the reading of datetime.now() the run with this ordinal takes at its end
ClockReading(at, ordinal) == [hour |-> at, reading |-> ordinal]

\* the last statements of run_alert_cycle set a module global to `value`; a
\* run that returned early has not reached them
track_last_run(global, steps, value) ==
    IF ReturnedEarly(steps) THEN global ELSE <<value>>

(***************************************************************************)
(* Operations of the alert cycle.                                          *)
(***************************************************************************)
\* the prices the alerted market trades at
CyclePrices == {40, 45, 65}

\* the listings the fetch of a cycle returns: nothing, or the market at a price
CycleListings ==
    {<<>>} \cup {<<[slug |-> "mkt-x", total_volume |-> 100000, yes_price |-> p]>> :
                    p \in CyclePrices}

FamilySet == Range(Families)

Recipients == IF use_channel THEN {Channel} ELSE Range(AlertUsers)

\* the families whose detectors return the market, and the family whose send
\* can fail
DetectingFamilies == {"wakeup", "fast_mover"}
FailingFamilies == {"wakeup"}

\* the times at which cycles run: cycles within the same hour, and cycles more
\* than four hours later
CycleHours == {0, 5}

\* the most cycles in one behaviour
MaxCycles == 3

\* time passes up to the next time at which cycles run
CycleTick ==
    /\ \E h \in CycleHours : h > now
    /\ now' = CHOOSE h \in CycleHours : h > now /\ \A g \in CycleHours : g > now => h <= g
    /\ lastOp' = "tick"
    /\ UNCHANGED <<volVarsButEvents, lastEvents, volume_snapshots, lastSlugs,
                   lastHours, deltas, wakeups, ledgerVars, cycleVars>>

\* what the detectors of the families in `families` return for the listing:
\* every listed market, in the order of the listing
Detected(families, events) ==
    [f \in FamilySet |->
        IF f \in families
        THEN [i \in 1..Len(events) |-> Candidate(f, events[i])]
        ELSE <<>>]

\* one run of run_alert_cycle(app) on the given inputs
Cycle(responses, write_fault, families, raising, failed) ==
    \E fetched \in {get_all_markets_paginated(responses, MARKETS_TO_SCAN)} :
    \E r \in {run_alert_cycle(responses, write_fault,
                              Detected(families, fetched.events), raising, failed,
                              now)} :
        /\ cycles' = cycles + 1
        /\ lastOp' = "cycle"
        /\ lastEvents' = fetched.events
        /\ lastCandidates' = families
        /\ lastFailed' = failed
        /\ lastInput' = [responses |-> responses, write_fault |-> write_fault,
                         raising |-> raising]
        /\ volume_snapshots' = r.volume_snapshots
        /\ price_snapshots' = r.price_snapshots
        /\ user_alerts' = r.user_alerts
        /\ channel_alerts' = r.channel_alerts
        /\ delivered' = r.delivered
        /\ trace' = r.trace
        /\ last_cycle_time' =
               track_last_run(last_cycle_time, r.trace, ClockReading(now, cycles + 1))
        /\ last_cycle_stats' =
               track_last_run(last_cycle_stats, r.trace,
                              cycle_stats(fetched.events, r.trace))
        /\ UNCHANGED <<volVarsButEvents, now, lastSlugs, lastHours, deltas, wakeups,
                       use_channel, pc, velocity_alerts, big_moves, signalVars,
                       handlerVars>>

\* run_alert_cycle(app): a scheduled or a manual cycle whose fetch and whose
\* detectors succeed. The listing is fetched and its snapshots are saved; each
\* detector returns the market of the listing or nothing; at most one send
\* fails. No market is watched, so the watchlist phase finds nothing to send.
RunAlertCycle ==
    \E events \in CycleListings, families \in SUBSET DetectingFamilies,
       failed \in SUBSET (Recipients \X FailingFamilies) :
        /\ cycles < MaxCycles
        /\ Cardinality(failed) <= 1
        /\ \A f \in failed : f[2] \in families
        /\ events = <<>> => families = {}
        /\ Cycle(IF events = <<>> THEN <<>> ELSE <<OkPage(events)>>, "none",
                 families, {}, failed)

Next ==
    \/ RunAlertCycle
    \/ CycleTick

Spec == Init /\ [][Next]_vars

(***************************************************************************)
(* Operations of the alert cycle under faults: a fetch that fails, a       *)
(* snapshot write that fails, an alert block that raises.                  *)
(***************************************************************************)
\* one more market than a bundle holds
BatchSlugs ==
    <<"mkt-x", "mkt-a", "mkt-b", "mkt-c", "mkt-d", "mkt-e", "mkt-f", "mkt-g",
      "mkt-h", "mkt-i", "mkt-j">>

BatchListing ==
    [i \in 1..(ALERT_CAP_PER_CYCLE + 1) |->
        [slug |-> BatchSlugs[i], total_volume |-> 200000 - 1000 * i,
         yes_price |-> 50]]

\* the two pages of a listing of two markets
PageOne == <<[slug |-> "mkt-x", total_volume |-> 100000, yes_price |-> 40]>>
PageTwo == <<[slug |-> "mkt-z", total_volume |-> 90000, yes_price |-> 60]>>

\* the cycles without a fault: the upstream's pages, the detecting families
HealthyCases ==
    {[responses |-> rs, write_fault |-> "none", raising |-> {}, families |-> fs] :
        rs \in {<<OkPage(PageOne)>>, <<OkPage(PageOne), OkPage(PageTwo)>>,
                <<OkPage(BatchListing)>>},
        fs \in SUBSET DetectingFamilies}

\* the fetch fails on the first or on the second page, with an HTTP error or
\* with a body that is no JSON
FetchFaultCases ==
    {[responses |-> rs, write_fault |-> "none", raising |-> {},
      families |-> DetectingFamilies] :
        rs \in {<<HttpError>>, <<OkPage(PageOne), HttpError>>,
                <<BadBody>>, <<OkPage(PageOne), BadBody>>}}

\* one of the two bulk snapshot writes raises
WriteFaultCases ==
    {[responses |-> <<OkPage(PageOne)>>, write_fault |-> w, raising |-> {},
      families |-> DetectingFamilies] : w \in {"volume", "price"}}

\* a detector raises, or a formatter raises before the send
RaisingCases ==
    {[responses |-> <<OkPage(PageOne)>>, write_fault |-> "none", raising |-> {x},
      families |-> DetectingFamilies] :
        x \in {<<"wakeup", "check">>, <<"wakeup", "deliver">>,
               <<"fast_mover", "deliver">>}}

FaultCases == HealthyCases \cup FetchFaultCases \cup WriteFaultCases \cup RaisingCases

\* the most cycles in one behaviour with faults
MaxFaultCycles == 2

\* run_alert_cycle(app) with at most one fault; every send works
RunFaultyCycle ==
    \E c \in FaultCases :
        /\ cycles < MaxFaultCycles
        /\ Cycle(c.responses, c.write_fault, c.families, c.raising, {})

FaultNext ==
    \/ RunFaultyCycle
    \/ CycleTick

SpecFaults == Init /\ [][FaultNext]_vars

(***************************************************************************)
(* scheduler.py, bot.py: who runs cycles, and when. The interval job and   *)
(* the command handlers are coroutines on one event loop; a coroutine      *)
(* gives way to the others at each await.                                  *)
(***************************************************************************)
\* the awaits of run_alert_cycle, in order
AwaitPoints ==
    <<"get_all_markets_paginated",
      "check_wakeup_alerts", "send wakeup_bundle",
      "check_fast_mover_alerts", "send fast_mover_bundle",
      "check_big_swing_alerts", "send big_swing_bundle",
      "check_early_heat_alerts", "send early_heat_bundle",
      "check_new_launch_alerts", "send new_launch_bundle">>

\* the most cycles each starter starts
MaxStarts == 2

Running(w) == pc[w].at # 0

overlapUnchanged ==
    <<volVars, snapVars, ledgerVars, price_snapshots, lastInput, trace,
      velocity_alerts, big_moves, statusVars, signalVars, handlerVars>>

\* the coroutine enters run_alert_cycle and is suspended at its first await
StartCycle(w) ==
    /\ pc[w].runs < MaxStarts
    /\ pc' = [pc EXCEPT ![w] = [at |-> 1, runs |-> @.runs + 1]]
    /\ UNCHANGED overlapUnchanged

\* the interval trigger fires: the scheduler runs the job unless an instance
\* of this job is still running (add_job without max_instances: one instance)
ScheduledStart ==
    /\ ~Running("scheduled")
    /\ StartCycle("scheduled")

\* /checknow or /unseed: the handler awaits run_manual_cycle, which awaits
\* run_alert_cycle; the handler of the next update starts when this one is done
ManualStart ==
    /\ ~Running("manual")
    /\ StartCycle("manual")

\* the awaited call returns and the coroutine runs on to its next await, or
\* to the end of run_alert_cycle
Resume(w) ==
    /\ Running(w)
    /\ pc' = [pc EXCEPT ![w].at = IF @ = Len(AwaitPoints) THEN 0 ELSE @ + 1]
    /\ UNCHANGED overlapUnchanged

ResumeCycle == \E w \in Starters : Resume(w)

OverlapNext ==
    \/ ScheduledStart
    \/ ManualStart
    \/ ResumeCycle

SpecOverlap == Init /\ [][OverlapNext]_vars

(***************************************************************************)
(* alerts.py: the velocity detector and the price-movement detector;       *)
(* database.py: the price snapshots they read.                             *)
(***************************************************************************)
BIG_MOVE_THRESHOLD == 10

VELOCITY_THRESHOLDS == <<5000, 10000, 25000, 50000, 100000>>

\* Python's min() over a non-empty list of numbers
MinOf(s) == CHOOSE v \in Range(s) : \A w \in Range(s) : v <= w

\* get_price_from_hours_ago for each of the slugs: the maps the queries can
\* return. A market without a row recorded_at <= datetime('now', '-hours
\* hours') gets None and is left out of the map; ORDER BY recorded_at DESC
\* LIMIT 1 leaves the choice among rows of equal recorded_at open.
get_price_from_hours_ago(table, event_slugs, hours, at) ==
    LET old(s)  == {i \in DOMAIN table :
                       table[i].event_slug = s /\ table[i].recorded_at <= at - hours}
        found   == {s \in Range(event_slugs) : old(s) # {}}
    IN  {[s \in found |-> table[o[s]].yes_price] :
         o \in {g \in [found -> DOMAIN table] :
                   \A s \in found : g[s] \in FirstRanked(table, old(s))}}

\* check_velocity_alerts, `for event in events`
RECURSIVE VelocityLoop(_, _, _, _)
VelocityLoop(acc, events, velocity_deltas, thresholds) ==
    IF events = <<>> THEN acc
    ELSE LET event == Head(events)
             next ==
                 IF event.slug \notin DOMAIN velocity_deltas THEN acc
                 ELSE LET velocity == velocity_deltas[event.slug]
                          crossed  == SelectSeq(thresholds, LAMBDA t : velocity >= t)
                      IN  IF velocity >= MinOf(thresholds) /\ crossed # <<>>
                          THEN Append(acc, [slug |-> event.slug,
                                            velocity |-> velocity,
                                            threshold |-> Max(crossed),
                                            total_volume |-> event.total_volume,
                                            yes_price |-> event.yes_price])
                          ELSE acc
         IN  VelocityLoop(next, Tail(events), velocity_deltas, thresholds)

\* check_velocity_alerts for the listing `fetched` and the delta map it read:
\* the resolved markets are filtered out, the sports markets are not
check_velocity_alerts(fetched, velocity_deltas, thresholds) ==
    SortDesc(VelocityLoop(<<>>, filter_resolved(fetched), velocity_deltas, thresholds),
             "velocity")

\* check_price_movements, `for event in events`
RECURSIVE PriceLoop(_, _, _, _, _, _, _)
PriceLoop(acc, events, volume_deltas, old_prices, threshold, min_volume, min_volume_delta) ==
    IF events = <<>> THEN acc
    ELSE LET event         == Head(events)
             current_price == event.yes_price
             total_volume  == event.total_volume
             next ==
                 IF event.slug \notin DOMAIN old_prices THEN acc
                 ELSE LET old_price    == old_prices[event.slug]
                          change       == current_price - old_price
                          volume_delta == GetOr0(volume_deltas, event.slug)
                          passes_confirmation ==
                              \/ total_volume >= 500000
                              \/ /\ total_volume >= min_volume
                                 /\ volume_delta >= min_volume_delta
                      IN  IF Abs(change) >= threshold /\ passes_confirmation
                          THEN Append(acc, [slug |-> event.slug,
                                            old_price |-> old_price,
                                            new_price |-> current_price,
                                            change |-> change,
                                            abs_change |-> Abs(change),
                                            total_volume |-> total_volume,
                                            volume_delta |-> volume_delta])
                          ELSE acc
         IN  PriceLoop(next, Tail(events), volume_deltas, old_prices, threshold,
                       min_volume, min_volume_delta)

\* check_price_movements for the listing `fetched`, the delta map and the old
\* prices it read: no market is filtered out before the loop
check_price_movements(fetched, volume_deltas, old_prices, threshold, min_volume, min_volume_delta) ==
    SortDesc(PriceLoop(<<>>, fetched, volume_deltas, old_prices, threshold,
                       min_volume, min_volume_delta),
             "abs_change")

(***************************************************************************)
(* Operations of the velocity and price-movement detectors.                *)
(***************************************************************************)
\* what a fetch reports of a market: an hour's trading moves the volume from
\* 100000 to 110000 and the price from 40 to 60, or to 97 for the market that
\* resolves
DetectorQuotes ==
    {[slug |-> m, total_volume |-> 100000, yes_price |-> 40] : m \in Markets}
      \cup {[slug |-> m, total_volume |-> 110000, yes_price |-> 60] : m \in Markets}
      \cup {[slug |-> "mkt-x", total_volume |-> 110000, yes_price |-> 97]}

\* the listings of the detectors' fetches, one market a fetch
DetectorListings == {<<q>> : q \in DetectorQuotes}

\* the most rows each snapshot table holds
MaxDetectorSnapshots == 3

\* an operation other than a detector leaves no detector output behind
ClearDetected ==
    /\ velocity_alerts' = <<>>
    /\ big_moves' = <<>>

detectorUnchanged ==
    <<volVarsButEvents, lastSlugs, lastHours, deltas, wakeups, ledgerVars, lastInput,
      trace, pc, statusVars, signalVars, handlerVars>>

\* time passes up to the next hour the clock visits
DetectorTick ==
    /\ \E h \in Hours : h > now
    /\ now' = CHOOSE h \in Hours : h > now /\ \A g \in Hours : g > now => h <= g
    /\ lastOp' = "tick"
    /\ lastEvents' = <<>>
    /\ ClearDetected
    /\ UNCHANGED <<volume_snapshots, price_snapshots, detectorUnchanged>>

\* run_alert_cycle's save of the fetched listing: volume and price snapshots
SaveSnapshots ==
    \E fetched \in DetectorListings :
        /\ Len(volume_snapshots) + Len(fetched) <= MaxDetectorSnapshots
        /\ Len(price_snapshots) + Len(fetched) <= MaxDetectorSnapshots
        /\ volume_snapshots' = save_volume_snapshots_bulk(volume_snapshots, fetched, now)
        /\ price_snapshots' = save_price_snapshots_bulk(price_snapshots, fetched, now)
        /\ lastOp' = "save"
        /\ lastEvents' = fetched
        /\ ClearDetected
        /\ UNCHANGED <<now, detectorUnchanged>>

\* check_velocity_alerts() with the thresholds of config.py
CheckVelocityAlerts ==
    \E fetched \in DetectorListings :
        LET events == filter_resolved(fetched)
            slugs  == [i \in 1..Len(events) |-> events[i].slug]
        IN  /\ velocity_alerts' \in
                   {check_velocity_alerts(fetched, d, VELOCITY_THRESHOLDS) :
                       d \in get_volume_deltas_bulk(volume_snapshots, slugs, 1, now)}
            /\ big_moves' = <<>>
            /\ lastOp' = "velocity"
            /\ lastEvents' = fetched
            /\ UNCHANGED <<now, volume_snapshots, price_snapshots, detectorUnchanged>>

\* check_price_movements(threshold=10) with its default hours, min_volume and
\* min_volume_delta; it saves the current prices as new snapshots
CheckPriceMovements ==
    \E fetched \in DetectorListings :
        LET slugs == [i \in 1..Len(fetched) |-> fetched[i].slug]
        IN  /\ Len(price_snapshots) + Len(fetched) <= MaxDetectorSnapshots
            /\ big_moves' \in
                   {check_price_movements(fetched, d, o, BIG_MOVE_THRESHOLD, 5000, 2000) :
                       d \in get_volume_deltas_bulk(volume_snapshots, slugs, 1, now),
                       o \in get_price_from_hours_ago(price_snapshots, slugs, 1, now)}
            /\ price_snapshots' = save_price_snapshots_bulk(price_snapshots, fetched, now)
            /\ velocity_alerts' = <<>>
            /\ lastOp' = "price"
            /\ lastEvents' = fetched
            /\ UNCHANGED <<now, volume_snapshots, detectorUnchanged>>

DetectorNext ==
    \/ DetectorTick
    \/ SaveSnapshots
    \/ CheckVelocityAlerts
    \/ CheckPriceMovements

SpecDetectors == SnapshotsInit /\ [][DetectorNext]_vars

(***************************************************************************)
(* alerts.py: the fast-mover, underdog, closing-soon and early-heat        *)
(* detectors; database.py: the deltas and the seen markets they read.      *)
(***************************************************************************)
CLOSING_SOON_HOURS == 12

CLOSING_SOON_MIN_VELOCITY == 5000

\* the result of a detector: the exception it raised, or the list it returned
NoResult == [raised |-> FALSE, out |-> <<>>]

Raised == [raised |-> TRUE, out |-> <<>>]

\* get_price_deltas_bulk(event_slugs, hours): for each requested market the
\* latest price minus the price at or before now - hours, and that old price; a
\* market without a snapshot at or before the cutoff is left out of the result.
\* Rows of equal recorded_at leave the choice of the latest row open.
get_price_deltas_bulk(table, event_slugs, hours, at) ==
    LET rows(s) == {i \in DOMAIN table : table[i].event_slug = s}
        old(s)  == {i \in rows(s) : table[i].recorded_at <= at - hours}
        joined  == {s \in Range(event_slugs) : rows(s) # {} /\ old(s) # {}}
    IN  {[s \in joined |->
             [delta |-> table[c[s]].yes_price - table[o[s]].yes_price,
              old |-> table[o[s]].yes_price]] :
         c \in {g \in [joined -> DOMAIN table] :
                   \A s \in joined : g[s] \in FirstRanked(table, rows(s))},
         o \in {g \in [joined -> DOMAIN table] :
                   \A s \in joined : g[s] \in FirstRanked(table, old(s))}}

\* price_deltas.get(slug, {}) followed by .get("delta", 0) and .get("old", 0)
PriceData(price_deltas, slug) ==
    IF slug \in DOMAIN price_deltas THEN price_deltas[slug]
    ELSE [delta |-> 0, old |-> 0]

\* [e.get("slug") for e in events if e.get("slug")]
SlugsOf(events) == [i \in 1..Len(events) |-> events[i].slug]

\* the percentage without its guard: velocity / total_volume * 100
velocity_pct_unguarded(velocity, total_volume) ==
    [num |-> velocity * 100, den |-> total_volume]

\* (velocity / total_volume * 100) if total_volume > 0 else 0, as a fraction; a
\* denominator of 0 is a division by zero
velocity_pct(velocity, total_volume) ==
    IF total_volume > 0 THEN [num |-> velocity * 100, den |-> total_volume]
    ELSE [num |-> 0, den |-> 1]

\* the test with the volume confirmation left out
IsFastMover_price_only(price_change, volume_behind, price_threshold, volume_threshold) ==
    Abs(price_change) >= price_threshold

\* abs(price_change) >= price_threshold and volume_behind >= volume_threshold
IsFastMover(price_change, volume_behind, price_threshold, volume_threshold) ==
    Abs(price_change) >= price_threshold /\ volume_behind >= volume_threshold

\* movers.sort(key=abs(price_change), reverse=True): a stable sort
SortMovers(s) ==
    LET rank(i) == 1 + Cardinality({j \in 1..Len(s) :
                                       \/ Abs(s[j].price_change) > Abs(s[i].price_change)
                                       \/ /\ Abs(s[j].price_change) = Abs(s[i].price_change)
                                          /\ j < i})
    IN  [k \in 1..Len(s) |-> s[CHOOSE i \in 1..Len(s) : rank(i) = k]]

\* check_fast_mover_alerts, `for event in events`
RECURSIVE FastMoverLoop(_, _, _, _, _, _, _)
FastMoverLoop(acc, events, price_deltas, volume_deltas, velocity_1h, price_threshold, volume_threshold) ==
    IF events = <<>> \/ acc.raised THEN acc
    ELSE LET event         == Head(events)
             total_volume  == event.total_volume
             price_data    == PriceData(price_deltas, event.slug)
             volume_behind == GetOr0(volume_deltas, event.slug)
             velocity      == GetOr0(velocity_1h, event.slug)
             pct           == velocity_pct(velocity, total_volume)
             next ==
                 IF ~IsFastMover(price_data.delta, volume_behind, price_threshold,
                                 volume_threshold)
                 THEN acc
                 ELSE IF pct.den = 0 THEN Raised
                 ELSE [acc EXCEPT !.out =
                          Append(@, [slug |-> event.slug,
                                     old_price |-> price_data.old,
                                     current_price |-> event.yes_price,
                                     price_change |-> price_data.delta,
                                     volume_behind |-> volume_behind,
                                     velocity |-> velocity,
                                     velocity_pct |-> pct,
                                     total_volume |-> total_volume,
                                     direction |-> IF price_data.delta > 0
                                                   THEN "up" ELSE "down"])]
         IN  FastMoverLoop(next, Tail(events), price_deltas, volume_deltas,
                           velocity_1h, price_threshold, volume_threshold)

\* check_fast_mover_alerts for the listing `fetched` and the delta maps it read
check_fast_mover_alerts(fetched, price_deltas, volume_deltas, velocity_1h, price_threshold, volume_threshold) ==
    LET r == FastMoverLoop(NoResult, filter_resolved(filter_sports(fetched)),
                           price_deltas, volume_deltas, velocity_1h,
                           price_threshold, volume_threshold)
    IN  [r EXCEPT !.out = SortMovers(@)]

\* the test that takes a fall of the price for a rise
IsUnderdog_any_move(total_volume, yes_price, price_change, max_price, min_volume, min_price_change) ==
    /\ ~(total_volume < min_volume \/ yes_price > max_price)
    /\ Abs(price_change) >= min_price_change

\* not (total_volume < min_volume or yes_price > max_price), and
\* price_change >= min_price_change
IsUnderdog(total_volume, yes_price, price_change, max_price, min_volume, min_price_change) ==
    /\ ~(total_volume < min_volume \/ yes_price > max_price)
    /\ price_change >= min_price_change

\* check_underdog_alerts, `for event in events`
RECURSIVE UnderdogLoop(_, _, _, _, _, _, _)
UnderdogLoop(acc, events, price_deltas_24h, deltas_1h, max_price, min_volume, min_price_change) ==
    IF events = <<>> THEN acc
    ELSE LET event      == Head(events)
             price_data == PriceData(price_deltas_24h, event.slug)
             next ==
                 IF IsUnderdog(event.total_volume, event.yes_price, price_data.delta,
                               max_price, min_volume, min_price_change)
                 THEN [acc EXCEPT !.out =
                          Append(@, [slug |-> event.slug,
                                     yes_price |-> event.yes_price,
                                     old_price |-> price_data.old,
                                     price_change |-> price_data.delta,
                                     velocity |-> GetOr0(deltas_1h, event.slug),
                                     total_volume |-> event.total_volume])]
                 ELSE acc
         IN  UnderdogLoop(next, Tail(events), price_deltas_24h, deltas_1h, max_price,
                          min_volume, min_price_change)

\* check_underdog_alerts for the listing `fetched` and the delta maps it read;
\* underdogs.sort(key=price_change, reverse=True)
check_underdog_alerts(fetched, price_deltas_24h, deltas_1h, max_price, min_volume, min_price_change) ==
    LET r == UnderdogLoop(NoResult, filter_resolved(filter_sports(fetched)),
                          price_deltas_24h, deltas_1h, max_price, min_volume,
                          min_price_change)
    IN  [r EXCEPT !.out = SortDesc(@, "price_change")]

\* the try block of check_closing_soon_alerts leaves an end_date to work with:
\* the string is there, holds a "T" and fromisoformat accepts it
EndDateParsed(end_date) == end_date.kind \in {"naive", "aware"}

\* not (hours_left <= 0 or hours_left > hours_until_close)
ClosesWithin(hours_left, hours_until_close) ==
    ~(hours_left <= 0 \/ hours_left > hours_until_close)

\* closing_soon.sort(key=hours_left): a stable ascending sort
SortClosing(s) ==
    LET rank(i) == 1 + Cardinality({j \in 1..Len(s) :
                                       \/ s[j].hours_left < s[i].hours_left
                                       \/ s[j].hours_left = s[i].hours_left /\ j < i})
    IN  [k \in 1..Len(s) |-> s[CHOOSE i \in 1..Len(s) : rank(i) = k]]

\* check_closing_soon_alerts, `for event in events`. (end_date - now) with an
\* offset-aware now raises TypeError unless end_date carries an offset too.
RECURSIVE ClosingSoonLoop(_, _, _, _, _, _)
ClosingSoonLoop(acc, events, velocity_deltas, at, hours_until_close, min_velocity) ==
    IF events = <<>> \/ acc.raised THEN acc
    ELSE LET event      == Head(events)
             hours_left == event.end_date.at - at
             velocity   == GetOr0(velocity_deltas, event.slug)
             next ==
                 IF ~EndDateParsed(event.end_date) THEN acc
                 ELSE IF event.end_date.kind # "aware" THEN Raised
                 ELSE IF ~ClosesWithin(hours_left, hours_until_close) THEN acc
                 ELSE IF velocity < min_velocity THEN acc
                 ELSE [acc EXCEPT !.out =
                          Append(@, [slug |-> event.slug,
                                     yes_price |-> event.yes_price,
                                     hours_left |-> hours_left,
                                     velocity |-> velocity,
                                     total_volume |-> event.total_volume])]
         IN  ClosingSoonLoop(next, Tail(events), velocity_deltas, at,
                             hours_until_close, min_velocity)

\* check_closing_soon_alerts for the listing `fetched` and the deltas it read
check_closing_soon_alerts(fetched, velocity_deltas, at, hours_until_close, min_velocity) ==
    LET r == ClosingSoonLoop(NoResult, filter_resolved(filter_sports(fetched)),
                             velocity_deltas, at, hours_until_close, min_velocity)
    IN  [r EXCEPT !.out = SortClosing(@)]

\* get_recently_seen_slugs(hours) as the dict check_early_heat_alerts makes of
\* it: event_slug -> first_seen_at of the rows with first_seen_at >= now - hours
\* (ORDER BY first_seen_at DESC: the oldest such row of a slug comes last and
\* is the one the dict keeps)
get_recently_seen_slugs(table, hours, at) ==
    LET recent(s) == {i \in DOMAIN table :
                         table[i].event_slug = s /\ table[i].first_seen_at >= at - hours}
        slugs     == {table[i].event_slug : i \in {j \in DOMAIN table : recent(table[j].event_slug) # {}}}
    IN  [s \in slugs |->
            table[CHOOSE i \in recent(s) :
                     \A j \in recent(s) : table[i].first_seen_at <= table[j].first_seen_at
                 ].first_seen_at]

\* early_heat.sort(key=velocity_pct, reverse=True): a stable sort, the keys
\* velocity * 100 / total_volume of the entries (total_volume > 0) compared as
\* fractions
SortEarlyHeat(s) ==
    LET hotter(a, b) == a.velocity * b.total_volume > b.velocity * a.total_volume
        rank(i) == 1 + Cardinality({j \in 1..Len(s) :
                                       \/ hotter(s[j], s[i])
                                       \/ ~hotter(s[i], s[j]) /\ j < i})
    IN  [k \in 1..Len(s) |-> s[CHOOSE i \in 1..Len(s) : rank(i) = k]]

\* check_early_heat_alerts, `for event in events`
RECURSIVE EarlyHeatLoop(_, _, _, _, _, _, _)
EarlyHeatLoop(acc, events, deltas_1h, recent_slugs, at, max_volume, min_velocity_pct) ==
    IF events = <<>> \/ acc.raised THEN acc
    ELSE LET event        == Head(events)
             total_volume == event.total_volume
             velocity     == GetOr0(deltas_1h, event.slug)
             pct          == velocity_pct(velocity, total_volume)
             next ==
                 IF total_volume > max_volume THEN acc
                 ELSE IF pct.den = 0 THEN Raised
                 ELSE IF pct.num < min_velocity_pct * pct.den THEN acc
                 ELSE [acc EXCEPT !.out =
                          Append(@, [slug |-> event.slug,
                                     yes_price |-> event.yes_price,
                                     total_volume |-> total_volume,
                                     velocity |-> velocity,
                                     velocity_pct |-> pct,
                                     hours_ago |-> at - recent_slugs[event.slug]])]
         IN  EarlyHeatLoop(next, Tail(events), deltas_1h, recent_slugs, at,
                           max_volume, min_velocity_pct)

\* the events check_early_heat_alerts asks deltas for: the pre-filtered
\* listing, cut down to the recently seen markets
RecentEvents(fetched, recent_slugs) ==
    SelectSeq(filter_resolved(filter_sports(fetched)),
              LAMBDA e : e.slug \in DOMAIN recent_slugs)

\* check_early_heat_alerts for the listing `fetched`, the recently seen markets
\* and the deltas it read; without a recently seen market it returns [] at once
check_early_heat_alerts(fetched, recent_slugs, deltas_1h, at, max_volume, min_velocity_pct) ==
    IF DOMAIN recent_slugs = {} THEN NoResult
    ELSE LET r == EarlyHeatLoop(NoResult, RecentEvents(fetched, recent_slugs),
                                deltas_1h, recent_slugs, at, max_volume,
                                min_velocity_pct)
         IN  [r EXCEPT !.out = SortEarlyHeat(@)]

\* SELECT 1 FROM seen_markets WHERE event_slug = ? AND telegram_id IS NULL
is_market_seen(table, event_slug) ==
    \E i \in DOMAIN table : table[i].event_slug = event_slug

\* a bulk insert that stores nothing
mark_markets_seen_bulk_nothing(table, markets, at) == table

\* INSERT OR IGNORE INTO seen_markets per market with telegram_id NULL, one
\* commit. UNIQUE(event_slug, telegram_id) never matches a NULL telegram_id, so
\* every row is inserted.
mark_markets_seen_bulk(table, markets, at) ==
    table \o [i \in 1..Len(markets) |->
                 [event_slug |-> markets[i].slug, first_seen_at |-> at]]

\* check_new_markets(limit, min_volume, mark_seen) for the listing `fetched`:
\* the list it returns and the seen_markets table it leaves
check_new_markets(table, fetched, min_volume, mark_seen, at) ==
    LET events == IF min_volume > 0
                  THEN SelectSeq(fetched, LAMBDA e : e.total_volume >= min_volume)
                  ELSE fetched
        new_markets == SelectSeq(events, LAMBDA e : ~is_market_seen(table, e.slug))
    IN  [out |-> new_markets,
         seen_markets |-> IF mark_seen /\ new_markets # <<>>
                          THEN mark_markets_seen_bulk(table, new_markets, at)
                          ELSE table]

(***************************************************************************)
(* Operations of the fast-mover, underdog and closing-soon detectors.      *)
(***************************************************************************)
\* the hours the clock visits: detectors run within the hour of a save, a day
\* after it and an hour after that
SignalHours == {0, 24, 25}

\* the most rows each snapshot table holds
MaxSignalSnapshots == 4

\* end_date strings the API can hold for a market, by what the detector makes
\* of them: none (or empty), a date without "T", a string with "T" that
\* fromisoformat rejects, a timestamp without UTC offset, and timestamps with
\* an offset, `at` being the hour they name
EndDates ==
    { [kind |-> "missing",   at |-> 0],
      [kind |-> "date_only", at |-> 0],
      [kind |-> "malformed", at |-> 0],
      [kind |-> "naive",     at |-> 30],
      [kind |-> "aware",     at |-> 25],
      [kind |-> "aware",     at |-> 30],
      [kind |-> "aware",     at |-> 37],
      [kind |-> "aware",     at |-> 38] }

NoEndDate == [kind |-> "missing", at |-> 0]

\* an event of a listing
Event(slug, total_volume, yes_price, end_date) ==
    [slug |-> slug, total_volume |-> total_volume, yes_price |-> yes_price,
     end_date |-> end_date]

\* the listings run_alert_cycle fetches and saves snapshots of: the market at
\* rest, after a price move of 10 points with and without 10000 dollars of
\* volume behind it, and the same for two markets at once
SavedQuotes == {<<100000, 40>>, <<110000, 50>>, <<100000, 50>>}

SavedListings ==
    {<<Event("mkt-x", q[1], q[2], NoEndDate)>> : q \in SavedQuotes}
    \cup {<<Event("mkt-x", q[1], q[2], NoEndDate), Event("mkt-z", q[1], q[2], NoEndDate)>> :
             q \in {<<100000, 40>>, <<110000, 50>>}}

\* the listings the price detectors fetch: the market at a middling price, as
\* a large market, as an underdog, without volume, as a small underdog, and two
\* markets in either order
SignalQuotes == {<<100000, 40>>, <<600000, 50>>, <<100000, 15>>, <<0, 40>>, <<40000, 15>>}

SignalListings ==
    {<<Event("mkt-x", q[1], q[2], NoEndDate)>> : q \in SignalQuotes}
    \cup {<<Event(p[1], 100000, 15, NoEndDate), Event(p[2], 100000, 15, NoEndDate)>> :
             p \in {<<"mkt-x", "mkt-z">>, <<"mkt-z", "mkt-x">>}}

\* the listings the closing-soon detector fetches: the market with an end date
\* of each kind, alone and ahead of a market that closes in time
ClosingListings ==
    {<<Event("mkt-x", 100000, 40, e)>> : e \in EndDates}
    \cup {<<Event("mkt-x", 100000, 40, e),
            Event("mkt-z", 100000, 40, [kind |-> "aware", at |-> 30])>> : e \in EndDates}

signalUnchanged ==
    <<volVarsButEvents, lastSlugs, lastHours, deltas, wakeups, ledgerVars, lastInput,
      trace, pc, velocity_alerts, big_moves, statusVars, seen_markets, returned_new,
      cacheVars, handlerVars>>

NothingReturned == [by |-> "", raised |-> FALSE, out |-> <<>>, read |-> <<>>]

\* time passes up to the next hour the clock visits
SignalTick ==
    /\ \E h \in SignalHours : h > now
    /\ now' = CHOOSE h \in SignalHours : h > now /\ \A g \in SignalHours : g > now => h <= g
    /\ lastOp' = "tick"
    /\ lastEvents' = <<>>
    /\ returned' = NothingReturned
    /\ UNCHANGED <<volume_snapshots, price_snapshots, signalUnchanged>>

\* run_alert_cycle's save of the fetched listing: volume and price snapshots.
\* Cycles are minutes apart: no two of them save within the same hour of the
\* clock.
SaveSignalSnapshots ==
    \E fetched \in SavedListings :
        /\ Len(volume_snapshots) + Len(fetched) <= MaxSignalSnapshots
        /\ \A i \in DOMAIN volume_snapshots : volume_snapshots[i].recorded_at < now
        /\ volume_snapshots' = save_volume_snapshots_bulk(volume_snapshots, fetched, now)
        /\ price_snapshots' = save_price_snapshots_bulk(price_snapshots, fetched, now)
        /\ lastOp' = "save"
        /\ lastEvents' = <<>>
        /\ returned' = NothingReturned
        /\ UNCHANGED <<now, signalUnchanged>>

\* what a detector leaves behind: its result `c` and the maps `m` it read
Returned(by, c, m) == [by |-> by, raised |-> c.raised, out |-> c.out, read |-> m]

\* check_fast_mover_alerts() with its default thresholds: a price move of 10
\* points and 10000 dollars of volume within 2 hours
CheckFastMoverAlerts ==
    \E fetched \in SignalListings :
        LET slugs == SlugsOf(filter_resolved(filter_sports(fetched)))
        IN  /\ lastEvents' = fetched
            /\ returned' \in
                   {Returned("check_fast_mover_alerts",
                             check_fast_mover_alerts(fetched, m.price_deltas,
                                 m.volume_deltas, m.velocity_1h, 10, 10000), m) :
                    m \in [price_deltas :
                               get_price_deltas_bulk(price_snapshots, slugs, 2, now),
                           volume_deltas :
                               get_volume_deltas_bulk(volume_snapshots, slugs, 2, now),
                           velocity_1h :
                               get_volume_deltas_bulk(volume_snapshots, slugs, 1, now)]}
            /\ lastOp' = "fast_mover"
            /\ UNCHANGED <<now, volume_snapshots, price_snapshots, signalUnchanged>>

\* check_underdog_alerts() with its default thresholds: a price of at most 20,
\* a volume of at least 50000 and a rise of 2 points within 24 hours
CheckUnderdogAlerts ==
    \E fetched \in SignalListings :
        LET slugs == SlugsOf(filter_resolved(filter_sports(fetched)))
        IN  /\ lastEvents' = fetched
            /\ returned' \in
                   {Returned("check_underdog_alerts",
                             check_underdog_alerts(fetched, m.price_deltas,
                                 m.velocity_1h, 20, 50000, 2), m) :
                    m \in [price_deltas :
                               get_price_deltas_bulk(price_snapshots, slugs, 24, now),
                           velocity_1h :
                               get_volume_deltas_bulk(volume_snapshots, slugs, 1, now)]}
            /\ lastOp' = "underdog"
            /\ UNCHANGED <<now, volume_snapshots, price_snapshots, signalUnchanged>>

\* check_closing_soon_alerts() with the thresholds of config.py
CheckClosingSoonAlerts ==
    \E fetched \in ClosingListings :
        LET slugs == SlugsOf(filter_resolved(filter_sports(fetched)))
        IN  /\ lastEvents' = fetched
            /\ returned' \in
                   {Returned("check_closing_soon_alerts",
                             check_closing_soon_alerts(fetched, m.velocity_1h, now,
                                 CLOSING_SOON_HOURS, CLOSING_SOON_MIN_VELOCITY), m) :
                    m \in [velocity_1h :
                               get_volume_deltas_bulk(volume_snapshots, slugs, 1, now)]}
            /\ lastOp' = "closing_soon"
            /\ UNCHANGED <<now, volume_snapshots, price_snapshots, signalUnchanged>>

SignalNext ==
    \/ SignalTick
    \/ SaveSignalSnapshots
    \/ CheckFastMoverAlerts
    \/ CheckUnderdogAlerts
    \/ CheckClosingSoonAlerts

SpecSignals == SnapshotsInit /\ [][SignalNext]_vars

(***************************************************************************)
(* Operations on the seen markets: check_new_markets and the detectors     *)
(* that compute a percentage velocity.                                     *)
(***************************************************************************)
\* the listings check_new_markets fetches: the market with and without volume,
\* and two markets
NewMarketListings ==
    { <<Event("mkt-x", 100000, 40, NoEndDate)>>,
      <<Event("mkt-x", 0, 40, NoEndDate)>>,
      <<Event("mkt-x", 100000, 40, NoEndDate), Event("mkt-z", 40000, 15, NoEndDate)>> }

\* the values callers pass for min_volume
MinVolumes == {0, 50000}

\* the listings the detectors of a percentage velocity fetch: the market as a
\* small one, without volume and as a larger one
HeatListings ==
    {<<Event("mkt-x", q[1], q[2], NoEndDate)>> :
        q \in {<<40000, 15>>, <<0, 40>>, <<100000, 40>>}}

newMarketsUnchanged ==
    <<volVarsButEvents, lastSlugs, lastHours, deltas, wakeups, ledgerVars, lastInput,
      trace, pc, velocity_alerts, big_moves, statusVars, now, volume_snapshots,
      price_snapshots, cacheVars, handlerVars>>

\* check_new_markets(limit, min_volume, mark_seen)
CheckNewMarkets ==
    \E fetched \in NewMarketListings, min_volume \in MinVolumes, mark_seen \in BOOLEAN :
    \E r \in {check_new_markets(seen_markets, fetched, min_volume, mark_seen, now)} :
        /\ lastEvents' = fetched
        /\ seen_markets' = r.seen_markets
        /\ returned' = [by |-> "check_new_markets", raised |-> FALSE, out |-> r.out,
                        read |-> [min_volume |-> min_volume, mark_seen |-> mark_seen]]
        /\ returned_new' = IF mark_seen THEN returned_new \cup Slugs(r.out)
                           ELSE returned_new
        /\ lastOp' = "new_markets"
        /\ UNCHANGED newMarketsUnchanged

\* check_early_heat_alerts() with its default thresholds: seen within 24 hours,
\* a volume of at most 50000 and a velocity of at least 15 percent an hour
CheckEarlyHeatAlerts ==
    \E fetched \in HeatListings :
    \E recent_slugs \in {get_recently_seen_slugs(seen_markets, 24, now)} :
        LET slugs == SlugsOf(RecentEvents(fetched, recent_slugs))
        IN  /\ lastEvents' = fetched
            /\ returned' \in
                   {Returned("check_early_heat_alerts",
                             check_early_heat_alerts(fetched, recent_slugs,
                                 m.velocity_1h, now, 50000, 15), m) :
                    m \in [recent_slugs : {recent_slugs},
                           velocity_1h :
                               get_volume_deltas_bulk(volume_snapshots, slugs, 1, now)]}
            /\ lastOp' = "early_heat"
            /\ UNCHANGED <<now, volume_snapshots, price_snapshots, signalUnchanged>>

\* check_wakeup_alerts() with its default thresholds
CheckWakeupSignals ==
    \E fetched \in HeatListings :
        LET slugs == SlugsOf(filter_resolved(filter_sports(fetched)))
        IN  /\ lastEvents' = fetched
            /\ returned' \in
                   {Returned("check_wakeup_alerts",
                             [raised |-> FALSE,
                              out |-> check_wakeup_alerts(fetched, m.velocity_1h,
                                          m.velocity_6h, 2, 10, 6)], m) :
                    m \in [velocity_1h :
                               get_volume_deltas_bulk(volume_snapshots, slugs, 1, now),
                           velocity_6h :
                               get_volume_deltas_bulk(volume_snapshots, slugs, 6, now)]}
            /\ lastOp' = "wakeup"
            /\ UNCHANGED <<now, volume_snapshots, price_snapshots, signalUnchanged>>

NewMarketsNext ==
    \/ SignalTick
    \/ SaveSignalSnapshots
    \/ CheckNewMarkets
    \/ CheckEarlyHeatAlerts
    \/ CheckWakeupSignals

SpecNewMarkets == SnapshotsInit /\ [][NewMarketsNext]_vars

(***************************************************************************)
(* cache.py: the Redis cache in front of the delta queries.                *)
(***************************************************************************)
\* Python's None and a value that is not None
None == <<>>

Some(v) == <<v>>

\* the Redis commands that fail during a call
RedisOps == {"ping", "get", "set"}

\* get_redis(): the client, or None (FALSE) when the redis package is missing,
\* when the cache was disabled, or when the first connection fails its ping,
\* which disables the cache for good
get_redis(globals, faults) ==
    IF ~globals.REDIS_AVAILABLE \/ ~globals.redis_enabled
    THEN [globals |-> globals, client |-> FALSE]
    ELSE IF globals.redis_client
    THEN [globals |-> globals, client |-> TRUE]
    ELSE IF "ping" \in faults
    THEN [globals |-> [globals EXCEPT !.redis_client = FALSE, !.redis_enabled = FALSE],
          client |-> FALSE]
    ELSE [globals |-> [globals EXCEPT !.redis_client = TRUE], client |-> TRUE]

\* cache_get without its try block: an error of client.get leaves the function
cache_get_unguarded(globals, data, key, faults) ==
    LET c == get_redis(globals, faults)
    IN  IF ~c.client THEN [globals |-> c.globals, raised |-> FALSE, value |-> None]
        ELSE IF "get" \in faults
        THEN [globals |-> c.globals, raised |-> TRUE, value |-> None]
        ELSE [globals |-> c.globals, raised |-> FALSE,
              value |-> IF key \in DOMAIN data THEN Some(data[key]) ELSE None]

\* cache_get(key): None without a client, None when client.get or json.loads
\* raises, None for a key that is not there, else the value stored
cache_get(globals, data, key, faults) ==
    LET c == get_redis(globals, faults)
    IN  IF ~c.client THEN [globals |-> c.globals, raised |-> FALSE, value |-> None]
        ELSE IF "get" \in faults
        THEN [globals |-> c.globals, raised |-> FALSE, value |-> None]
        ELSE [globals |-> c.globals, raised |-> FALSE,
              value |-> IF key \in DOMAIN data THEN Some(data[key]) ELSE None]

\* the map `data` with `value` stored under `key`
Store(data, key, value) ==
    [k \in DOMAIN data \cup {key} |-> IF k = key THEN value ELSE data[k]]

\* cache_set(key, value, ttl): False without a client and when client.set
\* raises, else the value is stored and True returned. json.dumps and
\* json.loads give back the delta dicts they are given: string keys and
\* numbers.
cache_set(globals, data, key, value, faults) ==
    LET c == get_redis(globals, faults)
    IN  IF ~c.client \/ "set" \in faults
        THEN [globals |-> c.globals, data |-> data, raised |-> FALSE, ok |-> FALSE]
        ELSE [globals |-> c.globals, data |-> Store(data, key, value),
              raised |-> FALSE, ok |-> TRUE]

\* hash_slugs(slugs): the md5 of the sorted, comma-joined list, which two lists
\* share when they hold the same slugs the same number of times
hash_slugs(slugs) ==
    [s \in Range(slugs) |-> Cardinality({i \in DOMAIN slugs : slugs[i] = s})]

\* _make_key(prefix, slugs_hash, hours)
MakeKey(prefix, slugs_hash, hours) ==
    [prefix |-> prefix, slugs_hash |-> slugs_hash, hours |-> hours]

EmptyDict == [s \in {} |-> 0]

\* get_volume_deltas_cached and get_price_deltas_cached(event_slugs, hours,
\* db_func), which differ in the prefix of their keys: {} for no slugs, the
\* cached value if there is one, else db_func's result `db_result`, which they
\* try to cache
get_deltas_cached(prefix, globals, data, event_slugs, hours, db_result, faults) ==
    IF event_slugs = <<>>
    THEN [globals |-> globals, data |-> data, raised |-> FALSE, result |-> EmptyDict]
    ELSE LET key    == MakeKey(prefix, hash_slugs(event_slugs), hours)
             cached == cache_get(globals, data, key, faults)
             put    == cache_set(cached.globals, data, key, db_result, faults)
         IN  IF cached.raised
             THEN [globals |-> cached.globals, data |-> data, raised |-> TRUE,
                   result |-> None]
             ELSE IF cached.value # None
             THEN [globals |-> cached.globals, data |-> data, raised |-> FALSE,
                   result |-> cached.value[1]]
             ELSE [globals |-> put.globals, data |-> put.data, raised |-> put.raised,
                   result |-> db_result]

get_volume_deltas_cached(globals, data, event_slugs, hours, db_result, faults) ==
    get_deltas_cached("volume_deltas", globals, data, event_slugs, hours, db_result,
                      faults)

get_price_deltas_cached(globals, data, event_slugs, hours, db_result, faults) ==
    get_deltas_cached("price_deltas", globals, data, event_slugs, hours, db_result,
                      faults)

(***************************************************************************)
(* Operations on the cache.                                                *)
(***************************************************************************)
\* the slug lists and the window callers ask deltas for
CacheSlugLists == {<<>>, <<"mkt-x">>}

CacheKeys ==
    {MakeKey(p, hash_slugs(<<"mkt-x">>), 1) : p \in {"volume_deltas", "price_deltas"}}

\* what db_func(event_slugs, 1) can return: the bulk queries of database.py
\* return {} for no slugs and a delta for each market with an old snapshot
DbResults(prefix, event_slugs) ==
    IF event_slugs = <<>> THEN {EmptyDict}
    ELSE IF prefix = "volume_deltas"
    THEN {EmptyDict, [s \in {"mkt-x"} |-> 0], [s \in {"mkt-x"} |-> 10000]}
    ELSE {EmptyDict, [s \in {"mkt-x"} |-> [delta |-> 10, old |-> 40]]}

cacheUnchanged ==
    <<volVars, snapVars, ledgerVars, price_snapshots, lastInput, trace, pc,
      velocity_alerts, big_moves, statusVars, returned, seen_markets, returned_new,
      handlerVars>>

\* the call made, what it was given, the state it found and what it returned
Called(op, key, faults, db_result, result, raised) ==
    [op |-> op, key |-> key, faults |-> faults, db_result |-> db_result,
     before |-> cache_module, cached |-> IF key \in DOMAIN redis_data
                                         THEN Some(redis_data[key]) ELSE None,
     result |-> result, raised |-> raised]

\* cache_get(key)
CacheGet ==
    \E key \in CacheKeys, faults \in SUBSET RedisOps :
    \E r \in {cache_get(cache_module, redis_data, key, faults)} :
        /\ cache_module' = r.globals
        /\ cache_call' = Called("cache_get", key, faults, None, r.value, r.raised)
        /\ UNCHANGED <<redis_data, cacheUnchanged>>

\* cache_set(key, value)
CacheSet ==
    \E key \in CacheKeys, faults \in SUBSET RedisOps :
    \E value \in DbResults(key.prefix, <<"mkt-x">>) :
    \E r \in {cache_set(cache_module, redis_data, key, value, faults)} :
        /\ cache_module' = r.globals
        /\ redis_data' = r.data
        /\ cache_call' = Called("cache_set", key, faults, value, r.ok, r.raised)
        /\ UNCHANGED cacheUnchanged

\* get_volume_deltas_cached(event_slugs, 1, db_func)
GetVolumeDeltasCached ==
    \E event_slugs \in CacheSlugLists, faults \in SUBSET RedisOps :
    \E db_result \in DbResults("volume_deltas", event_slugs) :
    \E r \in {get_volume_deltas_cached(cache_module, redis_data, event_slugs, 1,
                                       db_result, faults)} :
        /\ cache_module' = r.globals
        /\ redis_data' = r.data
        /\ cache_call' = Called("get_volume_deltas_cached",
                                MakeKey("volume_deltas", hash_slugs(event_slugs), 1),
                                faults, db_result, r.result, r.raised)
        /\ UNCHANGED cacheUnchanged

\* get_price_deltas_cached(event_slugs, 1, db_func)
GetPriceDeltasCached ==
    \E event_slugs \in CacheSlugLists, faults \in SUBSET RedisOps :
    \E db_result \in DbResults("price_deltas", event_slugs) :
    \E r \in {get_price_deltas_cached(cache_module, redis_data, event_slugs, 1,
                                      db_result, faults)} :
        /\ cache_module' = r.globals
        /\ redis_data' = r.data
        /\ cache_call' = Called("get_price_deltas_cached",
                                MakeKey("price_deltas", hash_slugs(event_slugs), 1),
                                faults, db_result, r.result, r.raised)
        /\ UNCHANGED cacheUnchanged

\* a key reaches its time to live and Redis drops it
ExpireKey ==
    \E key \in DOMAIN redis_data :
        /\ redis_data' = [k \in DOMAIN redis_data \ {key} |-> redis_data[k]]
        /\ cache_call' = Called("expire", key, {}, None, None, FALSE)
        /\ UNCHANGED <<cache_module, cacheUnchanged>>

\* a process starts with or without the redis package installed
CacheInit ==
    /\ VolInit /\ SnapInit /\ StoresInit
    /\ created_at_of = [m \in Markets |-> [kind |-> "empty", hours_old |-> 0]]
    /\ use_channel = FALSE
    /\ cache_module \in [REDIS_AVAILABLE : BOOLEAN, redis_client : {FALSE},
                         redis_enabled : {TRUE}]

CacheNext ==
    \/ CacheGet
    \/ CacheSet
    \/ GetVolumeDeltasCached
    \/ GetPriceDeltasCached
    \/ ExpireKey

SpecCache == CacheInit /\ [][CacheNext]_vars

(***************************************************************************)
(* database.py: the per-market delta next to the bulk delta.               *)
(***************************************************************************)
\* get_volume_delta(event_slug, hours): the values the two queries can return.
\* None when the market has no snapshot or none recorded at or before
\* datetime('now', '-hours hours'); else the volume of the first row by
\* recorded_at DESC minus the volume of the first such row at or before the
\* cutoff. ORDER BY recorded_at DESC LIMIT 1 names no second key, so the
\* choice among rows of equal recorded_at is open.
get_volume_delta(table, event_slug, hours, at) ==
    LET rows == {i \in DOMAIN table : table[i].event_slug = event_slug}
        old  == {i \in rows : table[i].recorded_at <= at - hours}
    IN  IF rows = {} \/ old = {}
        THEN {None}
        ELSE {Some(table[c].volume - table[o].volume) :
                 c \in FirstRanked(table, rows), o \in FirstRanked(table, old)}

(***************************************************************************)
(* Operations on the snapshot store with both delta queries.               *)
(***************************************************************************)
\* get_volume_delta(event_slug, hours)
GetVolumeDelta ==
    \E event_slug \in Markets, hours \in {1, 6} :
        \E result \in get_volume_delta(volume_snapshots, event_slug, hours, now) :
            /\ returned' = [by |-> "get_volume_delta", raised |-> FALSE, out |-> result,
                            read |-> [event_slug |-> event_slug, hours |-> hours]]
            /\ lastOp' = "delta"
            /\ ClearDeltas /\ ClearWakeups
            /\ UNCHANGED <<volVarsButEvents, now, volume_snapshots, ledgerVars,
                           price_snapshots, lastInput, trace, pc, velocity_alerts,
                           big_moves, statusVars, seen_markets, returned_new, cacheVars,
                           handlerVars>>

DeltaNext ==
    \/ Tick
    \/ SaveVolumeSnapshots
    \/ GetVolumeDeltasBulk
    \/ GetVolumeDelta

SpecDeltas == SnapshotsInit /\ [][DeltaNext]_vars


(***************************************************************************)
(* alerts.py: a seeding pass that raises before it completes.              *)
(***************************************************************************)
\* the calls of seed_volume_baselines that can raise, in the order it makes
\* them: get_all_markets_paginated, update_volume_baselines_bulk,
\* record_milestones_bulk, mark_volume_seeded
SeedSteps == <<"fetch", "baselines", "milestones", "flag">>

\* a seeding that sets the flag before it writes the baselines
seed_volume_baselines_raising_flag_first(events, thresholds, flag, at) ==
    [baselines  |-> volume_baselines,
     milestones |-> volume_milestones,
     seeded     |-> TRUE]

\* seed_volume_baselines when its call `at` raises: the stores and the flag it
\* leaves behind. Each bulk write commits once, after its last row, so a
\* write that raises leaves none of its rows; the writes made before it stay.
seed_volume_baselines_raising(events, thresholds, flag, at) ==
    LET done == seed_volume_baselines(events, thresholds)
    IN  [baselines  |-> IF at \in {"milestones", "flag"}
                        THEN done.baselines ELSE volume_baselines,
         milestones |-> IF at = "flag" THEN done.milestones ELSE volume_milestones,
         seeded     |-> flag]

(***************************************************************************)
(* Operations on the volume stores with seeding passes that raise.         *)
(***************************************************************************)
\* A call of check_volume_milestones() before the flag is set whose seeding
\* raises: the exception leaves check_volume_milestones, nothing is returned.
SeedingRaises ==
    \E fetched \in Listings, at \in Range(SeedSteps) :
        LET s == seed_volume_baselines_raising(fetched, VOLUME_THRESHOLDS, seeded, at)
        IN  /\ ~seeded
            /\ passes < MaxPasses
            /\ passes' = passes + 1
            /\ lastEvents' = IF at = "fetch" THEN <<>> ELSE fetched
            /\ lastOp' = "seed_raised"
            /\ lastRecord' = TRUE
            /\ volume_baselines' = s.baselines
            /\ volume_milestones' = s.milestones
            /\ seeded' = s.seeded
            /\ milestones_crossed' = <<>>
            /\ discoveries' = <<>>
            /\ UNCHANGED <<emitted, discovered, created_at_of, snapVars, ledgerVars,
                           cycleVars>>

SeedingNext ==
    \/ CheckVolumeMilestones
    \/ SeedingRaises

SpecSeeding == VolumeInit /\ [][SeedingNext]_vars


(***************************************************************************)
(* scheduler.py: two cycles at the awaits of a per-user send. A cycle      *)
(* reads the user's delivery records, calls send_alert_to_user and is      *)
(* suspended in it; it writes the delivery record when the send has        *)
(* returned.                                                               *)
(***************************************************************************)
\* the families whose detectors return the market in these cycles
InterleavedFamilies == {"wakeup", "fast_mover"}

\* the market the detectors return
InterleavedEvent == [slug |-> "mkt-x", total_volume |-> 100000, yes_price |-> 40]

\* the position of the await in AwaitPoints
AwaitOf(name) == CHOOSE i \in 1..Len(AwaitPoints) : AwaitPoints[i] = name

\* `for user in alert_users` up to the await of the send: what the coroutine
\* is about to send to the user, None when filter_unseen_markets leaves
\* nothing (`continue`)
begin_user_send(table, user_id, family, candidates) ==
    LET unseen == filter_unseen_markets(table, user_id, candidates, family)
    IN  IF unseen = <<>> THEN None
        ELSE Some([user_id |-> user_id, family |-> family,
                   to_send |-> SubSeq(unseen, 1, Min(ALERT_CAP_PER_CYCLE, Len(unseen)))])

interleaveUnchanged ==
    <<volVars, snapVars, use_channel, channel_alerts, lastCandidates, lastFailed,
      cycles, price_snapshots, lastInput, trace, velocity_alerts, big_moves,
      statusVars, signalVars, user_settings, watchlist, watch_alerts, stale_keys>>

\* the coroutine starts a cycle whose detector of the family returns the
\* market and runs to the family's block for the user: it filters, formats and
\* awaits send_alert_to_user, or finds nothing to send and ends
CycleToSend(w) ==
    \E user_id \in Range(AlertUsers), family \in InterleavedFamilies :
        LET bundle == begin_user_send(user_alerts, user_id, family,
                                      <<Candidate(family, InterleavedEvent)>>)
        IN  /\ ~Running(w)
            /\ pc[w].runs < MaxStarts
            /\ sending' = [sending EXCEPT ![w] = bundle]
            /\ pc' = [pc EXCEPT ![w] =
                         [at |-> IF bundle = None THEN 0
                                 ELSE AwaitOf("send " \o family \o "_bundle"),
                          runs |-> @.runs + 1]]
            /\ UNCHANGED <<user_alerts, delivered, interleaveUnchanged>>

\* send_alert_to_user returns to the coroutine, which on success writes the
\* delivery records with mark_user_alerted_bulk and runs on to the end of the
\* cycle
SendReturns(w) ==
    \E sent \in BOOLEAN :
        /\ sending[w] # None
        /\ LET b == sending[w][1]
           IN  IF sent
               THEN /\ user_alerts' =
                           mark_user_alerted_bulk(user_alerts, b.user_id,
                                                  SlugsOf(b.to_send), b.family)
                    /\ delivered' =
                           delivered \o Deliveries(b.user_id, b.to_send, b.family, now)
               ELSE UNCHANGED <<user_alerts, delivered>>
        /\ sending' = [sending EXCEPT ![w] = None]
        /\ pc' = [pc EXCEPT ![w].at = 0]
        /\ UNCHANGED interleaveUnchanged

\* either coroutine takes its step
CycleReachesSend == \E w \in Starters : CycleToSend(w)

SendReturnsToCycle == \E w \in Starters : SendReturns(w)

InterleaveNext ==
    \/ CycleReachesSend
    \/ SendReturnsToCycle

\* the bot runs in per-user mode
InterleaveInit == Init /\ use_channel = FALSE

SpecInterleave == InterleaveInit /\ [][InterleaveNext]_vars


(***************************************************************************)
(* scheduler.py: the cycle in per-user mode with its watchlist phase;      *)
(* database.py: the users' settings and the watchlist; bot.py: /watch and  *)
(* the Push Alerts toggle.                                                 *)
(***************************************************************************)
\* `if abs(change) >= 5` in the watchlist phase
WATCHLIST_MIN_CHANGE == 5

\* the price watch_command stores with a new row: add_to_watchlist(user_id,
\* slug, slug, 0)
WATCH_PLACEHOLDER_PRICE == 0

\* toggle_user_setting(telegram_id, setting) on an existing user
toggle_user_setting(table, telegram_id, setting) ==
    [table EXCEPT ![telegram_id][setting] = ~@]

\* get_all_users_with_alerts_enabled(): WHERE new_markets_enabled = 1 OR
\* big_moves_enabled = 1
get_all_users_with_alerts_enabled(table) ==
    SelectSeq(AlertUsers, LAMBDA u : table[u].new_markets_enabled
                                        \/ table[u].big_moves_enabled)

\* [u for u in users if u.get("new_markets_enabled")]
PushUsers(table, enabled) ==
    SelectSeq(enabled, LAMBDA u : table[u].new_markets_enabled)

IsWatched(table, telegram_id, event_slug) ==
    \E i \in DOMAIN table :
        table[i].telegram_id = telegram_id /\ table[i].event_slug = event_slug

\* add_to_watchlist: INSERT OR IGNORE under PRIMARY KEY (telegram_id, event_slug)
add_to_watchlist(table, telegram_id, event_slug, current_price) ==
    IF IsWatched(table, telegram_id, event_slug) THEN table
    ELSE Append(table, [telegram_id |-> telegram_id, event_slug |-> event_slug,
                        last_price |-> current_price])

\* a write of the price that reaches no row
update_watchlist_price_nothing(table, telegram_id, event_slug, new_price) ==
    table

\* update_watchlist_price: UPDATE watchlist SET last_price = ? WHERE
\* telegram_id = ? AND event_slug = ?
update_watchlist_price(table, telegram_id, event_slug, new_price) ==
    [i \in DOMAIN table |->
        IF table[i].telegram_id = telegram_id /\ table[i].event_slug = event_slug
        THEN [table[i] EXCEPT !.last_price = new_price]
        ELSE table[i]]

\* price_map = {e.get("slug"): e.get("yes_price", 0) for e in events}
PriceMap(events) ==
    [s \in {events[i].slug : i \in DOMAIN events} |->
        events[CHOOSE i \in DOMAIN events :
                  /\ events[i].slug = s
                  /\ \A j \in DOMAIN events : events[j].slug = s => j <= i].yes_price]

\* the watchlist phase, `for item in watched`: a market missing from the
\* listing is skipped; a change of at least 5 is sent to the watcher and the
\* stored price is updated, whatever the send returned
RECURSIVE WatchLoop(_, _, _, _, _)
WatchLoop(acc, watched, price_map, failed, at) ==
    IF watched = <<>> THEN acc
    ELSE LET item    == Head(watched)
             user_id == item.telegram_id
             slug    == item.event_slug
             last_price == item.last_price
             current_price == price_map[slug]
             change  == current_price - last_price
             sent    == send_alert_to_user(failed, user_id, "watchlist")
             alerted ==
                 [acc EXCEPT
                     !.watch_alerts =
                         Append(@, [telegram_id |-> user_id, slug |-> slug,
                                    last_price |-> last_price,
                                    current_price |-> current_price, sent |-> sent]),
                     !.delivered =
                         IF sent
                         THEN Append(@, [recipient |-> user_id, slug |-> slug,
                                         family |-> "watchlist",
                                         yes_price |-> current_price,
                                         price |-> current_price, at |-> at])
                         ELSE @,
                     !.watchlist =
                         update_watchlist_price(@, user_id, slug, current_price)]
             next == IF slug \notin DOMAIN price_map THEN acc
                     ELSE IF Abs(change) >= WATCHLIST_MIN_CHANGE THEN alerted
                     ELSE acc
         IN  WatchLoop(next, Tail(watched), price_map, failed, at)

\* the alert blocks in per-user mode, each under `if alert_users:`; detected[f]
\* is what the family's detector returns
RECURSIVE PushBlocks(_, _, _, _, _, _)
PushBlocks(acc, families, alert_users, detected, failed, at) ==
    IF families = <<>> \/ alert_users = <<>> THEN acc
    ELSE LET family == Head(families)
             candidates ==
                 SelectSeq(detected[family],
                           LAMBDA m : ~should_filter_market(m, acc.cycle_alerted_slugs,
                                                            [s \in {} |-> 0]))
             next == IF candidates = <<>> THEN acc
                     ELSE UserBlock(acc, alert_users, family, candidates, failed, {},
                                    at)
         IN  PushBlocks(next, Tail(families), alert_users, detected, failed, at)

\* run_alert_cycle(app) in per-user mode, the fetch returning `events`: the
\* stores and the history it leaves behind. It returns early when the listing
\* is empty and when no user has an alert setting on; else it runs the alert
\* blocks for the users with Push Alerts on and then the watchlist phase over
\* every watched market.
run_alert_cycle_per_user(events, detected, failed, at) ==
    LET start == [cycle_alerted_slugs |-> {}, user_alerts |-> user_alerts,
                  delivered |-> delivered, volume_snapshots |-> volume_snapshots,
                  price_snapshots |-> price_snapshots, trace |-> <<>>,
                  watchlist |-> watchlist, watch_alerts |-> <<>>,
                  completed |-> FALSE]
        stop(ev) == Step(ev, "", "", NoMessage, 0, FALSE)
        saved == [start EXCEPT
                     !.volume_snapshots = save_volume_snapshots_bulk(@, events, at),
                     !.price_snapshots = save_price_snapshots_bulk(@, events, at),
                     !.trace = <<Step("snapshots", "", "", NoMessage, 0, TRUE)>>]
        enabled == get_all_users_with_alerts_enabled(user_settings)
        pushed  == PushBlocks(saved, Families, PushUsers(user_settings, enabled),
                              detected, failed, at)
        watched == WatchLoop(pushed, watchlist, PriceMap(events), failed, at)
    IN  IF events = <<>>
        THEN [start EXCEPT !.trace = <<stop("no_events")>>]
        ELSE IF enabled = <<>>
        THEN [saved EXCEPT !.trace = Append(@, stop("no_users"))]
        ELSE [watched EXCEPT !.completed = TRUE]

(***************************************************************************)
(* Operations on the settings and the watchlist, and cycles in per-user    *)
(* mode.                                                                   *)
(***************************************************************************)
\* the prices the watched market trades at
WatchPrices == {40, 45}

\* the listings the fetch of a cycle returns: nothing, the watched market at
\* a price, or another market only
WatchListings ==
    {<<>>, <<[slug |-> "mkt-z", total_volume |-> 100000, yes_price |-> 50]>>}
        \cup {<<[slug |-> "mkt-x", total_volume |-> 100000, yes_price |-> p]>> :
                 p \in WatchPrices}

\* the most cycles in one behaviour with a watchlist
MaxWatchCycles == 2

watchUnchanged ==
    <<volVarsButEvents, now, lastSlugs, lastHours, deltas, wakeups, use_channel,
      channel_alerts, lastInput, pc, velocity_alerts, big_moves, signalVars, sending,
      stale_keys>>

\* the first user presses the Push Alerts button of /settings:
\* toggle_user_setting(user, "new_markets_enabled")
TogglePushAlerts ==
    \E u \in {"u1"} :
        /\ user_settings' = toggle_user_setting(user_settings, u, "new_markets_enabled")
        /\ lastOp' = "toggle"
        /\ UNCHANGED <<watchUnchanged, lastEvents, volume_snapshots, price_snapshots,
                       user_alerts, delivered, cycles, lastCandidates, lastFailed,
                       trace, statusVars, watchlist, watch_alerts>>

\* /watch <slug>: add_to_watchlist(user_id, slug, slug, 0)
WatchCommand ==
    \E u \in TelegramIds :
        /\ watchlist' = add_to_watchlist(watchlist, u, "mkt-x", WATCH_PLACEHOLDER_PRICE)
        /\ lastOp' = "watch"
        /\ UNCHANGED <<watchUnchanged, lastEvents, volume_snapshots, price_snapshots,
                       user_alerts, delivered, cycles, lastCandidates, lastFailed,
                       trace, statusVars, user_settings, watch_alerts>>

\* run_alert_cycle(app) in per-user mode: the fetch succeeds, the wakeup
\* detector returns the listed market or nothing, and the sends to the first
\* user can fail
RunWatchCycle ==
    \E events \in WatchListings, families \in SUBSET {"wakeup"},
       failing \in SUBSET {"u1"} :
    \E r \in {run_alert_cycle_per_user(events, Detected(families, events),
                                       failing \X {"wakeup", "watchlist"}, now)} :
        /\ cycles < MaxWatchCycles
        /\ cycles' = cycles + 1
        /\ lastOp' = "watch_cycle"
        /\ lastEvents' = events
        /\ lastCandidates' = families
        /\ lastFailed' = failing \X {"wakeup", "watchlist"}
        /\ volume_snapshots' = r.volume_snapshots
        /\ price_snapshots' = r.price_snapshots
        /\ user_alerts' = r.user_alerts
        /\ delivered' = r.delivered
        /\ trace' = r.trace
        /\ watchlist' = r.watchlist
        /\ watch_alerts' = r.watch_alerts
        /\ last_cycle_time' = IF r.completed THEN <<ClockReading(now, cycles + 1)>>
                              ELSE last_cycle_time
        /\ last_cycle_stats' = IF r.completed THEN <<cycle_stats(events, r.trace)>>
                               ELSE last_cycle_stats
        /\ UNCHANGED <<watchUnchanged, user_settings>>

\* per-user mode with empty stores; every user is registered with the
\* defaults of the users table, both settings on
WatchInit == Init /\ use_channel = FALSE

WatchNext ==
    \/ TogglePushAlerts
    \/ WatchCommand
    \/ RunWatchCycle

SpecWatch == WatchInit /\ [][WatchNext]_vars


(***************************************************************************)
(* Operations on the listing: the fetch of events with several markets.    *)
(***************************************************************************)
\* the markets the upstream lists: each belongs to one of two events and
\* carries its own volume and YES price; none is price-prediction spam
FetchedVolumes == {3000, 5000, 8000}
FetchedPrices == {40, 60}
FetchedMarket ==
    [slug : {"mkt-x", "mkt-z"}, total_volume : FetchedVolumes, yes_price : FetchedPrices]

\* the most markets one fetch returns
MaxFetched == 2

FetchedMarkets ==
    UNION {[1..n -> FetchedMarket] : n \in 0..MaxFetched}

\* get_all_markets_paginated(target_count=MARKETS_TO_SCAN) with the cache
\* missing, the upstream answering with one page
GetAllMarketsPaginated ==
    \E markets \in FetchedMarkets :
    \E r \in {get_all_markets_paginated(<<OkPage(markets)>>, MARKETS_TO_SCAN)} :
        /\ lastInput' = [responses |-> <<OkPage(markets)>>, write_fault |-> "none",
                         raising |-> {}]
        /\ lastEvents' = r.events
        /\ lastOp' = "fetch"
        /\ UNCHANGED <<volVarsButEvents, snapVars, ledgerVars, price_snapshots, trace,
                       pc, velocity_alerts, big_moves, statusVars, signalVars,
                       handlerVars>>

FetchNext == GetAllMarketsPaginated

SpecFetch == Init /\ [][FetchNext]_vars


(***************************************************************************)
(* Operations on the cache and the snapshot stores: a cycle writes         *)
(* snapshots, later calls read through the cache.                          *)
(***************************************************************************)
\* _make_key("markets", target_count)
MarketsKey(target_count) == [prefix |-> "markets", target_count |-> target_count]

\* get_all_markets_paginated(target_count, include_spam=False, use_cache=True):
\* the cached list when get_cached_markets returns one, else the list fetched
\* and grouped, which it tries to cache
get_all_markets_paginated_use_cache(globals, data, responses, target_count, faults) ==
    LET key     == MarketsKey(target_count)
        cached  == cache_get(globals, data, key, faults)
        fetched == get_all_markets_paginated(responses, target_count)
        put     == cache_set(cached.globals, data, key, fetched.events, faults)
    IN  IF cached.value # None
        THEN [globals |-> cached.globals, data |-> data, raised |-> FALSE,
              hit |-> TRUE, stored |-> FALSE, events |-> cached.value[1]]
        ELSE IF fetched.raised
        THEN [globals |-> cached.globals, data |-> data, raised |-> TRUE,
              hit |-> FALSE, stored |-> FALSE, events |-> <<>>]
        ELSE [globals |-> put.globals, data |-> put.data, raised |-> FALSE,
              hit |-> FALSE, stored |-> put.ok, events |-> fetched.events]

\* whether a cached delta lookup returns the entry it finds, and whether it
\* stores the result of db_func: it found nothing and its cache_set succeeded
DeltaHit(globals, data, key, faults) ==
    cache_get(globals, data, key, faults).value # None

DeltaStored(globals, data, key, faults) ==
    LET cached == cache_get(globals, data, key, faults)
    IN  cached.value = None /\ cache_set(cached.globals, data, key, EmptyDict, faults).ok

\* what the upstream lists when it is asked: nothing, or the watched market
\* with one of two volumes
UpstreamListings ==
    {<<>>} \cup {<<[slug |-> "mkt-x", total_volume |-> v, yes_price |-> 50]>> :
                    v \in {50000, 60000}}

UpstreamResponses == {<<OkPage(l)>> : l \in UpstreamListings} \cup {<<HttpError>>}

\* the call made through the cache, its key, whether it returned the cached
\* entry and what it returned
CachedCall(op, key, hit, result, raised) ==
    [op |-> op, key |-> key, hit |-> hit, result |-> result, raised |-> raised]

invalidationUnchanged ==
    <<volVars, now, lastSlugs, lastHours, deltas, wakeups, ledgerVars, lastInput,
      trace, pc, velocity_alerts, big_moves, statusVars, returned, seen_markets,
      returned_new, user_settings, watchlist, watch_alerts, sending>>

\* run_alert_cycle up to its snapshot writes: the listing comes from
\* get_all_markets_paginated, an empty listing or a failed fetch ends the
\* cycle, else both snapshot tables are written. The cycle deletes no cache
\* key: every key in Redis after the write was stored before it.
CycleWritesSnapshots ==
    \E responses \in UpstreamResponses, faults \in SUBSET RedisOps :
    \E r \in {get_all_markets_paginated_use_cache(cache_module, redis_data, responses,
                                                  MARKETS_TO_SCAN, faults)} :
        /\ Len(volume_snapshots) + Len(r.events) <= MaxSnapshots
        /\ cache_module' = r.globals
        /\ redis_data' = r.data
        /\ cache_call' = CachedCall("run_alert_cycle", MarketsKey(MARKETS_TO_SCAN),
                                    r.hit, r.events, r.raised)
        /\ IF r.raised \/ r.events = <<>>
           THEN /\ stale_keys' = IF r.stored
                                 THEN stale_keys \ {MarketsKey(MARKETS_TO_SCAN)}
                                 ELSE stale_keys
                /\ UNCHANGED <<volume_snapshots, price_snapshots>>
           ELSE /\ volume_snapshots' =
                       save_volume_snapshots_bulk(volume_snapshots, r.events, now)
                /\ price_snapshots' =
                       save_price_snapshots_bulk(price_snapshots, r.events, now)
                /\ stale_keys' = DOMAIN r.data
        /\ UNCHANGED invalidationUnchanged

\* a later get_all_markets_paginated(target_count=MARKETS_TO_SCAN) of a
\* detector or a command
LaterGetAllMarketsPaginated ==
    \E responses \in UpstreamResponses, faults \in SUBSET RedisOps :
    \E r \in {get_all_markets_paginated_use_cache(cache_module, redis_data, responses,
                                                  MARKETS_TO_SCAN, faults)} :
        /\ cache_module' = r.globals
        /\ redis_data' = r.data
        /\ cache_call' = CachedCall("get_all_markets_paginated",
                                    MarketsKey(MARKETS_TO_SCAN), r.hit, r.events,
                                    r.raised)
        /\ stale_keys' = IF r.stored THEN stale_keys \ {MarketsKey(MARKETS_TO_SCAN)}
                         ELSE stale_keys
        /\ UNCHANGED <<volume_snapshots, price_snapshots, invalidationUnchanged>>

\* a later get_volume_deltas_cached or get_price_deltas_cached(["mkt-x"], 1,
\* db_func)
LaterDeltasCached ==
    \E prefix \in {"volume_deltas", "price_deltas"}, faults \in SUBSET RedisOps :
    \E db_result \in DbResults(prefix, <<"mkt-x">>) :
    \E r \in {get_deltas_cached(prefix, cache_module, redis_data, <<"mkt-x">>, 1,
                                db_result, faults)} :
    \E key \in {MakeKey(prefix, hash_slugs(<<"mkt-x">>), 1)} :
        /\ cache_module' = r.globals
        /\ redis_data' = r.data
        /\ cache_call' = CachedCall("get_deltas_cached", key,
                                    DeltaHit(cache_module, redis_data, key, faults),
                                    r.result, r.raised)
        /\ stale_keys' = IF DeltaStored(cache_module, redis_data, key, faults)
                         THEN stale_keys \ {key} ELSE stale_keys
        /\ UNCHANGED <<volume_snapshots, price_snapshots, invalidationUnchanged>>

\* the time to live of a key runs out: 300 s for the listing and the price
\* deltas, 60 s for the volume deltas
CachedKeyExpires ==
    \E key \in DOMAIN redis_data :
        /\ redis_data' = [k \in DOMAIN redis_data \ {key} |-> redis_data[k]]
        /\ cache_call' = CachedCall("expire", key, FALSE, None, FALSE)
        /\ stale_keys' = stale_keys \ {key}
        /\ UNCHANGED <<cache_module, volume_snapshots, price_snapshots,
                       invalidationUnchanged>>

InvalidationNext ==
    \/ CycleWritesSnapshots
    \/ LaterGetAllMarketsPaginated
    \/ LaterDeltasCached
    \/ CachedKeyExpires

SpecInvalidation == CacheInit /\ [][InvalidationNext]_vars


(***************************************************************************)
(* Claims about the volume-milestone detector, checked under SpecVolume.   *)
(***************************************************************************)
ListedIn(events) == {events[i].slug : i \in 1..Len(events)}

EventOf(events, slug) == events[CHOOSE i \in 1..Len(events) : events[i].slug = slug]

\* the market is neither sports nor effectively resolved
PrefilterKeeps(e) ==
    e.slug \notin SportsMarkets /\ e.yes_price < 95 /\ e.yes_price > 5

CandidatesFor(candidates, slug) ==
    {i \in 1..Len(candidates) : candidates[i].slug = slug}

\* the step is a seeding pass of check_volume_milestones
SeedStep == passes' = passes + 1 /\ lastOp' = "seed"

\* the step is a detection pass of check_volume_milestones
DetectStep == passes' = passes + 1 /\ lastOp' = "detect"

\* C3, as claimed: over any sequence of passes with record=True, a milestone
\* candidate naming a given (market, threshold) is returned at most once.
C3_EmittedOnce ==
    \A p \in Markets \X ThresholdSet : emitted[p] <= 1

\* C4: the threshold-crossing store holds at most one row per (market,
\* threshold), and no operation changes or removes a row once written, so
\* recording a pair that is present leaves the existing row as it was.
C4_OneRowPerPair ==
    /\ [](\A r1, r2 \in volume_milestones :
             (r1.event_slug = r2.event_slug /\ r1.threshold = r2.threshold) => r1 = r2)
    /\ [][\A r \in volume_milestones : r \in volume_milestones']_vars

\* C4's case: a pass crossed a threshold again at another volume, and the row
\* of the first crossing is the one the store holds.
C4_Witness ==
    /\ lastOp = "detect" /\ lastRecord
    /\ \E i \in 1..Len(milestones_crossed) :
          \E r \in volume_milestones :
              /\ r.event_slug = milestones_crossed[i].slug
              /\ r.threshold = milestones_crossed[i].threshold
              /\ r.volume_at_crossing # milestones_crossed[i].current_volume

\* a market of the fetched listing that the pass sees for the first time, with
\* some threshold already satisfied, in a pass that writes (record=True) and
\* does not drop it in the pre-filter
FirstSightAboveThreshold(e) ==
    /\ e.slug \notin DOMAIN volume_baselines
    /\ SatisfiedThresholds(e.total_volume, VOLUME_THRESHOLDS) # <<>>
    /\ lastRecord'
    /\ (lastOp' = "seed" \/ PrefilterKeeps(e))

SeededSilently(e) ==
    /\ e.slug \in DOMAIN volume_baselines'
    /\ \A t \in ThresholdSet :
          t <= e.total_volume => HasRow(volume_milestones', e.slug, t)
    /\ CandidatesFor(milestones_crossed', e.slug) = {}

CrossedSet(previous_volume, current_volume) ==
    {t \in ThresholdSet : previous_volume < t /\ t <= current_volume}

\* what C6 asks of a baselined market e of the fetched listing
CrossingReported(e) ==
    LET crossed == CrossedSet(volume_baselines[e.slug], e.total_volume)
        found   == CandidatesFor(milestones_crossed', e.slug)
    IN  /\ (found # {}) <=> (crossed # {})
        /\ \A i \in found :
              LET c == milestones_crossed'[i]
              IN  /\ found = {i}
                  /\ c.threshold \in crossed
                  /\ \A t \in crossed : t <= c.threshold
                  /\ Range(c.also_crossed) = crossed \ {c.threshold}
                  /\ Len(c.also_crossed) = Cardinality(crossed) - 1
                  /\ lastRecord' =>
                        \A t \in crossed : HasRow(volume_milestones', e.slug, t)

\* C6: for an already-baselined market that the detection loop handles (one
\* kept by the sports and resolved pre-filter, in a pass run with the seeded
\* flag set) a milestone candidate is returned if and only if some threshold
\* lies in (previous baseline, current volume]; it names the highest such
\* threshold, also_crossed holds exactly the others, and with record=True
\* every crossed threshold has its row.
C6_BaselinedAndKept ==
    [][DetectStep =>
          \A e \in Range(lastEvents') :
              (e.slug \in DOMAIN volume_baselines /\ PrefilterKeeps(e))
                  => CrossingReported(e)]_vars

\* C6's case: baseline 80000, fetched 120000: one candidate with
\* threshold 100000 and also_crossed empty, and the row (X, 100000).
C6_Witness ==
    /\ lastOp = "detect" /\ lastRecord
    /\ \E i \in 1..Len(milestones_crossed) :
          /\ milestones_crossed[i].previous_volume = 80000
          /\ milestones_crossed[i].current_volume = 120000
          /\ milestones_crossed[i].threshold = 100000
          /\ milestones_crossed[i].also_crossed = <<>>
          /\ HasRow(volume_milestones, milestones_crossed[i].slug, 100000)

\* C7, as claimed: after a completed pass with record=True, every baselined
\* market of the fetched listing has the fetched volume as its baseline, also
\* when the pre-filter dropped it.
C7_BaselineIsLastFetch ==
    (lastOp \in {"seed", "detect"} /\ lastRecord) =>
        \A e \in Range(lastEvents) :
            e.slug \in DOMAIN volume_baselines =>
                volume_baselines[e.slug] = e.total_volume

\* whether the pass that made the step writes a baseline for the market e
Included(e) == lastOp' = "seed" \/ (lastRecord' /\ PrefilterKeeps(e))

\* C7, amended: a completed pass with record=True sets the baseline of every
\* market of the fetched listing that passes the pre-filter to the fetched
\* volume (a seeding pass: of every market of the listing), and leaves every
\* other baseline as it was.
C7_BaselineIsLastIncludedFetch ==
    [][(SeedStep \/ DetectStep) =>
          /\ \A e \in Range(lastEvents') :
                Included(e) =>
                    /\ e.slug \in DOMAIN volume_baselines'
                    /\ volume_baselines'[e.slug] = e.total_volume
          /\ \A m \in Markets :
                (\A e \in Range(lastEvents') : e.slug = m => ~Included(e)) =>
                    /\ (m \in DOMAIN volume_baselines') = (m \in DOMAIN volume_baselines)
                    /\ m \in DOMAIN volume_baselines =>
                          volume_baselines'[m] = volume_baselines[m]]_vars

\* C7's case: a baselined market was fetched at a new volume and kept by the
\* pre-filter, and its baseline has followed.
C7_Witness ==
    /\ lastOp = "detect" /\ lastRecord
    /\ \E i \in 1..Len(milestones_crossed) :
          /\ milestones_crossed[i].previous_volume # milestones_crossed[i].current_volume
          /\ volume_baselines[milestones_crossed[i].slug]
                = milestones_crossed[i].current_volume

\* C8: a discovery candidate is returned only for a market that had no
\* baseline, whose volume is at least the discovery floor and whose
\* created_at parses to an age within the 48 hour window.
C8_DiscoveryOnlyIfRecent ==
    [][DetectStep =>
          \A i \in 1..Len(discoveries') :
              LET d == discoveries'[i]
              IN  /\ d.slug \in ListedIn(lastEvents')
                  /\ d.slug \notin DOMAIN volume_baselines
                  /\ LET e == EventOf(lastEvents', d.slug)
                     IN  /\ e.total_volume >= 25000
                         /\ e.created_at.kind = "aware"
                         /\ e.created_at.hours_old <= 48]_vars

\* C8's case: a market never baselined, volume 30000, created 10 hours ago,
\* is returned as a discovery.
C8_Witness ==
    /\ lastOp = "detect"
    /\ \E i \in 1..Len(discoveries) :
          /\ discoveries[i].current_volume = 30000
          /\ discoveries[i].created_at = [kind |-> "aware", hours_old |-> 10]

(***************************************************************************)
(* Claims about deltas and wakeups, checked under SpecSnapshots.           *)
(***************************************************************************)
SnapshotsOf(slug) ==
    {i \in DOMAIN volume_snapshots : volume_snapshots[i].event_slug = slug}

\* the snapshots of the market recorded at or before now - hours
SnapshotsBefore(slug, hours) ==
    {i \in SnapshotsOf(slug) : volume_snapshots[i].recorded_at <= now - hours}

\* the volumes of the most recently recorded snapshots among `among`
LatestVolumes(among) ==
    {volume_snapshots[i].volume :
        i \in {k \in among : \A j \in among :
                  volume_snapshots[j].recorded_at <= volume_snapshots[k].recorded_at}}

\* C10: get_volume_deltas_bulk has an entry for a market exactly when the
\* market was requested and has a snapshot recorded at or before now - hours,
\* and the entry is exactly 0 when the latest snapshot and the latest snapshot
\* at or before the cutoff hold the same volume.
C10_AbsentOrExactZero ==
    lastOp = "deltas" =>
        \A s \in Markets :
            /\ s \in DOMAIN deltas <=>
                   (s \in Range(lastSlugs) /\ SnapshotsBefore(s, lastHours) # {})
            /\ \A v \in SnapshotVolumes :
                   ( /\ s \in DOMAIN deltas
                     /\ LatestVolumes(SnapshotsOf(s)) = {v}
                     /\ LatestVolumes(SnapshotsBefore(s, lastHours)) = {v} )
                       => deltas[s] = 0

\* C10's case: one market requested with snapshots but none old enough and so
\* absent, another with two snapshots of equal volume on both sides of the
\* cutoff and so present with 0.
C10_Witness ==
    /\ lastOp = "deltas"
    /\ \E s \in Range(lastSlugs) :
          SnapshotsOf(s) # {} /\ s \notin DOMAIN deltas
    /\ \E s \in DOMAIN deltas :
          /\ deltas[s] = 0
          /\ SnapshotsBefore(s, lastHours) # SnapshotsOf(s)

\* the deltas the store supports for the market over the window: the volume of
\* a latest snapshot minus the volume of a latest snapshot recorded at or
\* before now - hours
DeltasOver(slug, hours) ==
    {c - o : c \in LatestVolumes(SnapshotsOf(slug)),
             o \in LatestVolumes(SnapshotsBefore(slug, hours))}

\* quiet over the six hours (less than 2% of the volume per hour) and hot in
\* the last hour (at least 10% of the volume)
QuietThenHot(delta_1h, delta_6h, total_volume) ==
    /\ delta_6h * 100 < 2 * 6 * total_volume
    /\ delta_1h * 100 >= 10 * total_volume

\* C9: a market that check_wakeup_alerts considers (kept by the pre-filter,
\* volume above 0, snapshots reaching back over the quiet window) is returned
\* as a wakeup candidate exactly when its 6h delta per hour is below 2% of its
\* volume and its 1h delta is at least 10% of its volume.
C9_WakeupExactlyWhenQuietThenHot ==
    lastOp = "wakeup" =>
        \A e \in Range(lastEvents) :
            ( /\ PrefilterKeeps(e)
              /\ e.total_volume > 0
              /\ SnapshotsBefore(e.slug, 6) # {} )
                => IF CandidatesFor(wakeups, e.slug) # {}
                   THEN \E d1 \in DeltasOver(e.slug, 1), d6 \in DeltasOver(e.slug, 6) :
                            QuietThenHot(d1, d6, e.total_volume)
                   ELSE \E d1 \in DeltasOver(e.slug, 1), d6 \in DeltasOver(e.slug, 6) :
                            ~QuietThenHot(d1, d6, e.total_volume)

\* C9's case: 1.5% per hour over the quiet window (9% in 6 hours) and 12% in
\* the last hour: a candidate.
C9_Witness ==
    /\ lastOp = "wakeup"
    /\ \E i \in 1..Len(wakeups) :
          /\ wakeups[i].velocity_past.num * 100 = 9 * wakeups[i].total_volume
          /\ wakeups[i].velocity_now * 100 = 12 * wakeups[i].total_volume

(***************************************************************************)
(* Claims about the delivery ledger, checked under Spec.                   *)
(***************************************************************************)
\* the earlier deliveries of the same market under the same family to the
\* same recipient as delivery j
EarlierSame(log, j) ==
    {i \in 1..(j - 1) :
        /\ log[i].recipient = log[j].recipient
        /\ log[i].slug = log[j].slug
        /\ log[i].family = log[j].family}

\* the channel's deliveries of the market before position j that are less than
\* four hours old at the time `at`
RecentToChannel(log, j, slug, at) ==
    {i \in 1..(j - 1) :
        /\ log[i].recipient = Channel
        /\ log[i].slug = slug
        /\ log[i].at > at - 4}

Latest(positions) == CHOOSE k \in positions : \A i \in positions : i <= k

CycleStep == cycles' = cycles + 1

\* the cycle of the step has the market as a wakeup candidate
WakeupCandidate == lastEvents' # <<>> /\ "wakeup" \in lastCandidates'

\* the wakeup deliveries of the market to the recipient so far
WakeupsTo(log, recipient) ==
    {i \in DOMAIN log :
        /\ log[i].recipient = recipient
        /\ log[i].slug = "mkt-x"
        /\ log[i].family = "wakeup"}

\* the wakeup deliveries to the recipient made by the step
NewWakeupsTo(recipient) ==
    {j \in WakeupsTo(delivered', recipient) : j > Len(delivered)}

Entries(message) == Range(message.entries)

\* the sends of the last cycle, and those that went out
SendSteps == {i \in DOMAIN trace : trace[i].ev = "send"}

SentSteps == {i \in SendSteps : trace[i].ok}

NewDeliveries == {j \in DOMAIN delivered' : j > Len(delivered)}

\* the step delivers the market to the recipient under the family
DeliveredNow(recipient, family) ==
    \E j \in NewDeliveries :
        /\ delivered'[j].recipient = recipient
        /\ delivered'[j].slug = "mkt-x"
        /\ delivered'[j].family = family

\* C12: in per-user mode a user is delivered a candidate of a family exactly
\* on the strength of the candidates and of the user's own deliveries: a user
\* with no record of the market under the family, whose send works and who gets
\* the market under no other family in the cycle, is delivered it, whatever
\* the cycle sent to other users.
C12_IndependentPerUser ==
    [][(CycleStep /\ ~use_channel /\ lastEvents' # <<>>) =>
          \A b \in Range(AlertUsers) : \A f \in lastCandidates' :
              (/\ <<b, "mkt-x", f>> \notin user_alerts
               /\ <<b, f>> \notin lastFailed'
               /\ \A g \in FamilySet \ {f} : ~DeliveredNow(b, g))
                  => DeliveredNow(b, f)]_vars

\* the sends of a cycle's steps that the chat layer refused
Refused(steps, failed) ==
    {i \in DOMAIN steps :
        /\ steps[i].ev = "send"
        /\ <<steps[i].recipient, steps[i].family>> \in failed}

RefusedSteps == Refused(trace, lastFailed)

\* the users that come after the user in the loop over alert_users
UsersAfter(user_id) ==
    {AlertUsers[k] : k \in {n \in DOMAIN AlertUsers :
                               \E j \in 1..(n - 1) : AlertUsers[j] = user_id}}

\* C13: when the send of a bundle to a recipient fails, the cycle writes no
\* delivery record of the bundle's markets for that recipient, and it goes
\* on: every later user still owed the bundle is sent it, and every later
\* family is checked.
C13_FailedSendLeavesNoRecord ==
    [][CycleStep =>
          \A i \in Refused(trace', lastFailed') :
              LET r == trace'[i].recipient
                  f == trace'[i].family
              IN  /\ \A m \in Entries(trace'[i].message) :
                         /\ <<r, m, f>> \notin user_alerts'
                         /\ \A k \in DOMAIN channel_alerts' :
                                (/\ k > Len(channel_alerts)
                                 /\ channel_alerts'[k].event_slug = m)
                                    => channel_alerts'[k].alert_type # f
                         /\ ~DeliveredNow(r, f)
                  /\ \A u \in UsersAfter(r) :
                         \/ \E j \in DOMAIN trace' :
                                /\ j > i /\ trace'[j].ev = "send"
                                /\ trace'[j].recipient = u /\ trace'[j].family = f
                         \/ \A m \in Entries(trace'[i].message) :
                                <<u, m, f>> \in user_alerts
                  /\ \A k \in DOMAIN Families :
                         (\E n \in 1..(k - 1) : Families[n] = f) =>
                             \E j \in DOMAIN trace' :
                                 /\ j > i /\ trace'[j].ev = "check"
                                 /\ trace'[j].family = Families[k]]_vars

\* C13's case: the send of the wakeup bundle to the first user failed and the
\* second user was delivered it in the same cycle.
C13_Witness ==
    /\ lastOp = "cycle"
    /\ \E i \in RefusedSteps : \E j \in SentSteps :
           /\ i < j
           /\ trace[i].recipient = "u1" /\ trace[j].recipient = "u2"
           /\ trace[i].family = trace[j].family
           /\ <<"u1", "mkt-x", trace[i].family>> \notin user_alerts
           /\ <<"u2", "mkt-x", trace[i].family>> \in user_alerts

\* the detector runs of the last cycle
CheckSteps == {i \in DOMAIN trace : trace[i].ev = "check"}

\* the family is checked before the other in run_alert_cycle
Before(f, g) ==
    \E i, j \in DOMAIN Families : i < j /\ Families[i] = f /\ Families[j] = g

C14_RemainderSurfaced ==
    \A i \in SendSteps :
        trace[i].candidates > ALERT_CAP_PER_CYCLE =>
            /\ trace[i].message.entries =
                   [k \in 1..ALERT_CAP_PER_CYCLE |-> lastEvents[k].slug]
            /\ "left_out" \in DOMAIN trace[i].message
            /\ trace[i].message["left_out"] = trace[i].candidates - ALERT_CAP_PER_CYCLE

\* the fetch of the cycle met a page request that failed
FetchFailed(responses) == \E n \in DOMAIN responses : responses[n].kind # "ok"

\* the step leaves the snapshot tables as they were and runs no detector
AbortedEntirely ==
    /\ volume_snapshots' = volume_snapshots
    /\ price_snapshots' = price_snapshots
    /\ \A i \in DOMAIN trace' : trace'[i].ev \notin {"check", "send"}

\* C15: a cycle whose fetch fails on any page writes no snapshot and runs no
\* detector.
C15_FetchFailureAborts ==
    [][(CycleStep /\ FetchFailed(lastInput'.responses)) => AbortedEntirely]_vars

\* C16: a cycle one of whose bulk snapshot writes fails leaves none of its
\* snapshots stored, volume or price, and runs no detector.
C16_SnapshotWritesAtomic ==
    [][(CycleStep /\ lastInput'.write_fault # "none") => AbortedEntirely]_vars

\* the step delivers the market to the recipient under the family
DeliveredSlug(recipient, slug, family) ==
    \E j \in NewDeliveries :
        /\ delivered'[j].recipient = recipient
        /\ delivered'[j].slug = slug
        /\ delivered'[j].family = family

\* the recipient has no record that keeps the market out of the family's bundle
Owed(recipient, slug, family) ==
    IF recipient = Channel
    THEN RecentToChannel(delivered, Len(delivered) + 1, slug, now) = {}
    ELSE <<recipient, slug, family>> \notin user_alerts

\* C17: an exception raised while one family is checked or delivered keeps no
\* other family from being checked and delivered: in a cycle that reaches its
\* alert blocks every family whose own block raises nothing has its detector
\* run, and its candidates, unless an earlier bundle of the cycle held them,
\* are delivered to every recipient owed them.
C17_FamiliesIsolated ==
    [][(CycleStep /\ trace'[1].ev = "snapshots") =>
          \A g \in FamilySet :
              (\A x \in lastInput'.raising : x[1] # g) =>
                  /\ \E i \in DOMAIN trace' :
                         /\ trace'[i].ev = "check" /\ trace'[i].family = g
                         /\ trace'[i].ok
                  /\ g \in lastCandidates' =>
                         \A r \in Recipients : \A k \in DOMAIN lastEvents' :
                             (/\ k <= ALERT_CAP_PER_CYCLE
                              /\ Owed(r, lastEvents'[k].slug, g)
                              /\ \A j \in DOMAIN trace' :
                                     (trace'[j].ev = "send" /\ trace'[j].ok
                                        /\ trace'[j].family # g)
                                         => lastEvents'[k].slug
                                                \notin Entries(trace'[j].message))
                                 => DeliveredSlug(r, lastEvents'[k].slug, g)]_vars

\* C17's case: the wakeup detector raised and the fast-mover bundle of the
\* same cycle was delivered.
C17_Witness ==
    /\ lastOp = "cycle"
    /\ <<"wakeup", "check">> \in lastInput.raising
    /\ \E i \in CheckSteps : trace[i].family = "wakeup" /\ ~trace[i].ok
    /\ \E j \in SentSteps :
           trace[j].family = "fast_mover" /\ "mkt-x" \in Entries(trace[j].message)

(***************************************************************************)
(* Claim about who runs cycles, checked under SpecOverlap.                 *)
(***************************************************************************)
\* C18: at most one alert cycle is executing at any time: the interval job's
\* cycle and a manual cycle are never both between their start and their end.
C18_OneCycleAtATime ==
    \A v, w \in Starters : (Running(v) /\ Running(w)) => v = w

(***************************************************************************)
(* Claim about the detectors' pre-filter, checked under SpecDetectors.     *)
(***************************************************************************)
\* the market is in an excluded category, or effectively resolved at the price
Excluded(slug, yes_price) ==
    slug \in SportsMarkets \/ is_resolved_price(yes_price)

\* C20: no detector output holds a sports market or an effectively resolved
\* market, the outputs of check_velocity_alerts and of check_price_movements
\* included.
C20_OutputsPrefiltered ==
    /\ \A i \in DOMAIN velocity_alerts :
           ~Excluded(velocity_alerts[i].slug, velocity_alerts[i].yes_price)
    /\ \A i \in DOMAIN big_moves :
           ~Excluded(big_moves[i].slug, big_moves[i].new_price)

(***************************************************************************)
(* Claim about the quiet window of the wakeup detector, checked under      *)
(* SpecSnapshots.                                                          *)
(***************************************************************************)
\* C30: check_wakeup_alerts returns no market without a volume snapshot at or
\* before now - quiet_hours (6 hours): a market without data for the quiet
\* window is not taken to have been quiet.
C30_WakeupHasQuietWindowData ==
    \A i \in DOMAIN wakeups :
        \E k \in DOMAIN volume_snapshots :
            /\ volume_snapshots[k].event_slug = wakeups[i].slug
            /\ volume_snapshots[k].recorded_at <= now - 6

(***************************************************************************)
(* Claim about the status the scheduler reports, checked under SpecFaults. *)
(***************************************************************************)
\* C26: after every run of run_alert_cycle, one that returned early included,
\* get_scheduler_status reports that run: last_cycle_time is the time that run
\* read and last_cycle_stats are the stats that run returned.
C26_StatusReflectsLastRun ==
    [][CycleStep =>
          /\ last_cycle_time' = <<ClockReading(now', cycles')>>
          /\ last_cycle_stats' = <<cycle_stats(lastEvents', trace')>>]_vars

(***************************************************************************)
(* Claims about the fast-mover, underdog and closing-soon detectors,       *)
(* checked under SpecSignals.                                              *)
(***************************************************************************)
\* the markets of the fetched listing the detectors look at
Considered == Range(filter_resolved(filter_sports(lastEvents)))

\* the markets the last detector returned
EmittedSlugs == {returned.out[i].slug : i \in DOMAIN returned.out}

\* the snapshots of the market, and those at or before now - hours
RowsOf(table, slug) == {i \in DOMAIN table : table[i].event_slug = slug}

OldRowsOf(table, slug, hours) ==
    {i \in RowsOf(table, slug) : table[i].recorded_at <= now - hours}

\* the latest of the rows `among`
LatestOf(table, among) ==
    CHOOSE i \in among : \A j \in among : table[j].recorded_at <= table[i].recorded_at

\* the market's latest value minus its value at or before now - hours
ChangeOver(table, field, slug, hours) ==
    table[LatestOf(table, RowsOf(table, slug))][field]
        - table[LatestOf(table, OldRowsOf(table, slug, hours))][field]

\* the market has a snapshot at or before now - hours, and its value changed
\* by at least `least` since, in absolute terms if `absolute`
ChangedBy(table, field, slug, hours, least, absolute) ==
    /\ OldRowsOf(table, slug, hours) # {}
    /\ LET change == ChangeOver(table, field, slug, hours)
       IN  (IF absolute THEN Abs(change) ELSE change) >= least

\* C22: check_fast_mover_alerts returns a market it considers exactly when the
\* market's price moved by at least price_threshold (10 points) over the window
\* (2 hours) and its volume grew by at least volume_threshold (10000) over the
\* same window; a market without a price snapshot or without a volume snapshot
\* at or before the cutoff is not returned.
C22_FastMoverIffPriceAndVolume ==
    returned.by = "check_fast_mover_alerts" =>
        /\ ~returned.raised
        /\ \A e \in Considered :
              e.slug \in EmittedSlugs <=>
                  /\ ChangedBy(price_snapshots, "yes_price", e.slug, 2, 10, TRUE)
                  /\ ChangedBy(volume_snapshots, "volume", e.slug, 2, 10000, FALSE)

C22_Witness ==
    /\ returned.by = "check_fast_mover_alerts"
    /\ EmittedSlugs # {}
    /\ \E i \in DOMAIN returned.out :
          Abs(returned.out[i].price_change) = 10 /\ returned.out[i].volume_behind = 10000

\* C23: a market whose total volume reaches the large-market threshold (500000)
\* qualifies as a fast mover on the price move alone, whatever its volume
\* change.
C23_LargeMarketBypass ==
    returned.by = "check_fast_mover_alerts" =>
        \A e \in Considered :
            (/\ e.total_volume >= 500000
             /\ ChangedBy(price_snapshots, "yes_price", e.slug, 2, 10, TRUE))
                => e.slug \in EmittedSlugs

\* C24: check_underdog_alerts returns only markets priced at or below the
\* ceiling (20) with a volume of at least the floor (50000) whose price rose by
\* at least min_price_change (2 points) over 24 hours: a market whose price
\* fell, or without a price snapshot at or before now - 24h, is not returned.
C24_UnderdogOnlyRisers ==
    returned.by = "check_underdog_alerts" =>
        \A e \in Range(lastEvents) :
            e.slug \in EmittedSlugs =>
                /\ e.yes_price <= 20
                /\ e.total_volume >= 50000
                /\ ChangedBy(price_snapshots, "yes_price", e.slug, 24, 2, FALSE)

C24_Witness ==
    /\ returned.by = "check_underdog_alerts"
    /\ \E i \in DOMAIN returned.out : returned.out[i].price_change >= 2

\* the market closes within the window and traded at least the floor in the
\* last hour
ClosesSoon(e) ==
    /\ e.end_date.kind = "aware"
    /\ 0 < e.end_date.at - now
    /\ e.end_date.at - now <= CLOSING_SOON_HOURS
    /\ ChangedBy(volume_snapshots, "volume", e.slug, 1, CLOSING_SOON_MIN_VELOCITY, FALSE)

\* C25: check_closing_soon_alerts leaves a market with a missing or malformed
\* end date out and raises no error over it, the other markets of the listing
\* being evaluated as usual; a market it returns closes in more than 0 and at
\* most CLOSING_SOON_HOURS hours and has a 1h velocity of at least
\* CLOSING_SOON_MIN_VELOCITY.
C25_BadEndDateLeftOut ==
    returned.by = "check_closing_soon_alerts" =>
        /\ ~returned.raised
        /\ \A e \in Considered : e.slug \in EmittedSlugs <=> ClosesSoon(e)

\* the listing in the opposite order
Reverse(s) == [i \in 1..Len(s) |-> s[Len(s) + 1 - i]]

\* C27: the order of check_fast_mover_alerts' output does not depend on the
\* order of the listing: markets of equal |price change| come out in the order
\* of their identifiers, so the reversed listing gives the same output.
C27_OrderIndependentOfListing ==
    returned.by = "check_fast_mover_alerts" =>
        returned.out =
            check_fast_mover_alerts(Reverse(lastEvents), returned.read.price_deltas,
                                    returned.read.volume_deltas,
                                    returned.read.velocity_1h, 10, 10000).out

(***************************************************************************)
(* Claims about the markets without volume and about the seen markets,     *)
(* checked under SpecNewMarkets.                                           *)
(***************************************************************************)
\* the markets of the fetched listing whose total volume is 0
ZeroVolume == {e \in Range(lastEvents) : e.total_volume = 0}

\* C21: for a market whose total volume is 0 the percentage velocity is 0 and
\* computing it raises no error: check_early_heat_alerts and
\* check_wakeup_alerts return normally and the market is no candidate of
\* either.
C21_ZeroVolumeIsZeroPercent ==
    returned.by \in {"check_early_heat_alerts", "check_wakeup_alerts"} =>
        /\ ~returned.raised
        /\ \A e \in ZeroVolume :
              /\ e.slug \notin EmittedSlugs
              /\ LET pct == velocity_pct(GetOr0(returned.read.velocity_1h, e.slug),
                                         e.total_volume)
                 IN  pct.num = 0 /\ pct.den # 0

C21_Witness ==
    /\ returned.by = "check_early_heat_alerts"
    /\ \E e \in ZeroVolume :
          /\ e.slug \in DOMAIN returned.read.recent_slugs
          /\ GetOr0(returned.read.velocity_1h, e.slug) > 0

\* C29: a market check_new_markets returned with mark_seen=True is returned
\* by no later call: no call returns a slug an earlier marking call returned.
C29_NewOnlyOnce ==
    [][lastOp' = "new_markets" =>
          \A i \in DOMAIN returned'.out : returned'.out[i].slug \notin returned_new]_vars

C29_Witness ==
    /\ returned.by = "check_new_markets"
    /\ \E e \in Range(lastEvents) :
          /\ e.slug \in returned_new
          /\ e.slug \notin EmittedSlugs
          /\ e.total_volume >= returned.read.min_volume

(***************************************************************************)
(* Claim about the cache without Redis, checked under SpecCache.           *)
(***************************************************************************)
\* the call found no usable Redis: the package is missing, the cache was
\* disabled, or the first connection failed
Unavailable(call) ==
    \/ ~call.before.REDIS_AVAILABLE
    \/ ~call.before.redis_enabled
    \/ ~call.before.redis_client /\ "ping" \in call.faults

CachedWrappers == {"get_volume_deltas_cached", "get_price_deltas_cached"}

\* C28: when Redis is unavailable or a Redis command fails, no function of the
\* cache layer raises: cache_get returns None, cache_set returns False, and
\* get_volume_deltas_cached and get_price_deltas_cached return what db_func
\* returned.
C28_FallsBackWithoutRedis ==
    /\ ~cache_call.raised
    /\ (cache_call.op = "cache_get" /\ (Unavailable(cache_call) \/ "get" \in cache_call.faults))
           => cache_call.result = None
    /\ (cache_call.op = "cache_set" /\ (Unavailable(cache_call) \/ "set" \in cache_call.faults))
           => cache_call.result = FALSE
    /\ (/\ cache_call.op \in CachedWrappers
        /\ \/ Unavailable(cache_call)
           \/ "get" \in cache_call.faults
           \/ "set" \in cache_call.faults /\ cache_call.cached = None)
           => cache_call.result = cache_call.db_result

C28_Witness ==
    /\ cache_call.op \in CachedWrappers
    /\ cache_call.before.redis_client
    /\ "get" \in cache_call.faults
    /\ cache_call.cached # None
    /\ cache_call.cached # Some(cache_call.db_result)
    /\ cache_call.result = cache_call.db_result


(***************************************************************************)
(* Claim about the bulk delta and the per-market delta, checked under      *)
(* SpecDeltas.                                                             *)
(***************************************************************************)
\* the row inserted last among the rows of the greatest recorded_at
LastInserted(table, among) ==
    CHOOSE i \in FirstRanked(table, among) : \A j \in FirstRanked(table, among) : j <= i

\* C31: for every snapshot history, several snapshots of one market at one
\* timestamp included, and every requested market, get_volume_deltas_bulk
\* agrees with get_volume_delta called on the same store at the same time: it
\* has an entry exactly when get_volume_delta returns a value, the entry is
\* that value, and it is the latest snapshot's volume minus the volume of the
\* most recent snapshot at or before the cutoff, the row inserted last
\* counting as the most recent among rows of equal recorded_at.
C31_BulkAgreesWithPerMarket ==
    [][ ( /\ lastOp = "deltas"
          /\ lastOp' = "delta"
          /\ returned'.read.event_slug \in Range(lastSlugs)
          /\ returned'.read.hours = lastHours )
        => LET s    == returned'.read.event_slug
               rows == RowsOf(volume_snapshots, s)
               old  == {i \in rows : volume_snapshots[i].recorded_at <= now - lastHours}
           IN  /\ s \in DOMAIN deltas <=> returned'.out # None
               /\ s \in DOMAIN deltas =>
                     /\ returned'.out = Some(deltas[s])
                     /\ deltas[s] =
                            volume_snapshots[LastInserted(volume_snapshots, rows)].volume
                            - volume_snapshots[LastInserted(volume_snapshots, old)].volume
      ]_vars


(***************************************************************************)
(* Claim about the discoveries of successive passes, checked under         *)
(* SpecVolume.                                                             *)
(***************************************************************************)
\* C32: over any sequence of check_volume_milestones passes with record=True
\* (passes with record=False, direct record_milestone calls and the ageing of
\* the markets in between), a discovery candidate is returned for a market at
\* most once.
C32_DiscoveredAtMostOnce ==
    \A m \in Markets : discovered[m] <= 1

\* C32's case: a market that a pass with record=True returned as a discovery
\* is fetched again by a later pass with record=True, still created recently
\* and still at or above the discovery volume, and is not returned again.
C32_Witness ==
    /\ lastOp = "detect"
    /\ lastRecord
    /\ \E i \in 1..Len(lastEvents) :
          /\ discovered[lastEvents[i].slug] = 1
          /\ lastEvents[i].total_volume >= DISCOVERY_MIN_VOLUME
          /\ is_recently_created(lastEvents[i].created_at, 48)
          /\ \A j \in 1..Len(discoveries) : discoveries[j].slug # lastEvents[i].slug


(***************************************************************************)
(* Claim about the seeded flag, checked under SpecSeeding.                 *)
(***************************************************************************)
\* the stores hold what a seeding of the listing writes: for every fetched
\* market its volume as baseline and a row for every threshold it satisfies
SeedWritten(events) ==
    \A i \in 1..Len(events) :
        /\ events[i].slug \in DOMAIN volume_baselines
        /\ volume_baselines[events[i].slug] = events[i].total_volume
        /\ \A t \in ThresholdSet :
               events[i].total_volume >= t => HasRow(volume_milestones, events[i].slug, t)

\* C33: the seeded flag is set only by a pass that has written the baselines
\* of all fetched markets and the rows of all thresholds they satisfy; a call
\* of check_volume_milestones made while the flag is unset seeds and returns
\* no milestones and no discoveries; and a seeding pass that raises leaves
\* the flag unset, so that the next call seeds again.
C33_SeededOnlyAfterSeeding ==
    [][ /\ (~seeded /\ seeded') => (lastOp' = "seed" /\ SeedWritten(lastEvents)')
        /\ (~seeded /\ passes' # passes) =>
               /\ lastOp' \in {"seed", "seed_raised"}
               /\ milestones_crossed' = <<>>
               /\ discoveries' = <<>>
        /\ lastOp' = "seed_raised" => ~seeded'
      ]_vars

\* C33's case: the first call raised while seeding and left the flag unset
\* (a completed seeding would have made the second call a detection); the
\* second call seeded again, completed and set the flag.
C33_Witness ==
    /\ lastOp = "seed"
    /\ seeded
    /\ passes = 2
    /\ lastEvents # <<>>
    /\ volume_milestones # {}


(***************************************************************************)
(* Claim about two cycles at the awaits of a send, checked under           *)
(* SpecInterleave.                                                         *)
(***************************************************************************)
\* C34: however a scheduled and a manual cycle interleave at their awaits,
\* the read of a user's delivery records, the send and the write of the
\* record being separate steps, no user is sent the same market under the
\* same signal family twice.
C34_NoDuplicateUnderInterleaving ==
    \A i, j \in DOMAIN delivered :
        ( /\ delivered[i].recipient = delivered[j].recipient
          /\ delivered[i].slug = delivered[j].slug
          /\ delivered[i].family = delivered[j].family ) => i = j


(***************************************************************************)
(* Claims about the watchlist and the Push Alerts setting, checked under   *)
(* SpecWatch.                                                              *)
(***************************************************************************)
\* the cycle that ends in the next state has run its watchlist phase
WatchPhaseRan ==
    /\ lastOp' = "watch_cycle"
    /\ trace' # <<>>
    /\ \A k \in DOMAIN trace' : trace'[k].ev \notin {"no_events", "no_users"}

\* the phase tried to send the watcher an alert for the market
WatchAlerted(alerts, user_id, slug) ==
    \E k \in DOMAIN alerts : alerts[k].telegram_id = user_id /\ alerts[k].slug = slug

\* the fetched listing holds the market, at a price at least 5 away from
\* `last_price`
MovedInListing(events, slug, last_price) ==
    \E k \in DOMAIN events :
        /\ events[k].slug = slug
        /\ Abs(events[k].yes_price - last_price) >= 5

C36_PushOffSentNothing ==
    [][ lastOp' = "watch_cycle" =>
          \A k \in (Len(delivered) + 1)..Len(delivered') :
              user_settings[delivered'[k].recipient].new_markets_enabled
      ]_vars

\* C39: a market newly added with /watch never triggers a watchlist alert
\* computed against the price stored at add time: the first cycle that sees
\* the market sets its reference price and sends nothing, so every alert is
\* a move between two prices observed in listings. No listing of the model
\* quotes a market at the add-time price.
C39_NoAlertAgainstPlaceholder ==
    [][ WatchPhaseRan =>
          /\ \A k \in DOMAIN watch_alerts' :
                 watch_alerts'[k].last_price # WATCH_PLACEHOLDER_PRICE
          /\ \A i \in DOMAIN watchlist, k \in DOMAIN lastEvents' :
                 ( /\ watchlist[i].last_price = WATCH_PLACEHOLDER_PRICE
                   /\ lastEvents'[k].slug = watchlist[i].event_slug )
                     => watchlist'[i].last_price = lastEvents'[k].yes_price
      ]_vars


(***************************************************************************)
(* Claim about the grouping of markets by event, checked under SpecFetch.  *)
(***************************************************************************)
RECURSIVE SumOfVolumes(_, _)
SumOfVolumes(markets, slug) ==
    IF markets = <<>> THEN 0
    ELSE (IF Head(markets).slug = slug THEN Head(markets).total_volume ELSE 0)
             + SumOfVolumes(Tail(markets), slug)

HighestPrice(markets, slug) ==
    Max([i \in 1..Len(SelectSeq(markets, LAMBDA m : m.slug = slug)) |->
            SelectSeq(markets, LAMBDA m : m.slug = slug)[i].yes_price])

\* C37: get_all_markets_paginated returns one entry per event slug; its
\* total_volume is the sum of the volumes of all markets of the event, events
\* whose markets have equal volumes included, and its yes_price is the
\* highest YES price among them.
C37_OneEntryWithSummedVolume ==
    lastOp = "fetch" =>
        LET markets == lastInput.responses[1].events
        IN  \A s \in {markets[i].slug : i \in DOMAIN markets} :
                /\ Cardinality({k \in DOMAIN lastEvents : lastEvents[k].slug = s}) = 1
                /\ \A k \in DOMAIN lastEvents :
                       lastEvents[k].slug = s =>
                           /\ lastEvents[k].total_volume = SumOfVolumes(markets, s)
                           /\ lastEvents[k].yes_price = HighestPrice(markets, s)


(***************************************************************************)
(* Claim about the cache after a cycle's writes, checked under             *)
(* SpecInvalidation.                                                       *)
(***************************************************************************)
\* C38: once a cycle has written its snapshots, a later
\* get_all_markets_paginated or cached delta lookup does not return an entry
\* that was cached before that write.
C38_NoEntryFromBeforeTheWrite ==
    /\ cache_call.op \in {"get_all_markets_paginated", "get_deltas_cached"}
    /\ cache_call.hit
    => cache_call.key \notin stale_keys

====
